---- MODULE Spec2Model ----
(***************************************************************************)
(* Versioned markdown document store of croutons-merge-service:           *)
(* the markdown_versions / verified_domains tables and the handlers that   *)
(* read and write them (render, admin activate / activate-by-id /          *)
(* deactivate / versions, verification, and the md-server serving route).  *)
(*                                                                         *)
(* Spec      handlers run one at a time, each to completion.               *)
(* SpecConc  two requests run concurrently; every await of a handler is a  *)
(*           step, PostgreSQL is READ COMMITTED with row locks.            *)
(* SpecFail  concurrent activations and readers with database statements   *)
(*           that may fail.                                                *)
(***************************************************************************)
EXTENDS Integers, Sequences, FiniteSets, TLC

(* ------------------------------ bounds -------------------------------- *)

\* Largest value of the wall clock (NOW(), new Date()).
MaxNow == 0

(* ----------------------------- universe ------------------------------- *)

Domains == {"d1"}

Hashes == {"h1", "h2"}

\* Document paths as derivePath produces them.
INDEX == <<"index">>

Paths == {INDEX, <<"a">>}

Triples == Domains \X Paths \X Hashes

\* At most MaxRows rows are stored (render of a further triple is not taken).
MaxRows == 2

\* The UUID primary key of a row (gen_random_uuid()) is modelled by the row's
\* triple and the number of rows of that triple stored before it; the ids a
\* caller may send are the ids of the first row of every triple.
RowId(domain, path, hash, n) == <<domain, path, hash, n>>

Ids == {RowId(t[1], t[2], t[3], 1) : t \in Triples}

\* source_url values of requests: validity and URL.pathname as a character
\* sequence ("https://d/", "https://d/a", "https://d/a/", and a non-URL).
SourceUrls ==
  { [valid |-> TRUE, pathname |-> <<"/">>],
    [valid |-> TRUE, pathname |-> <<"/", "a">>],
    [valid |-> TRUE, pathname |-> <<"/", "a", "/">>],
    [valid |-> FALSE, pathname |-> <<>>] }

\* extracted_content values: an ordinary page and one whose rendering is
\* larger than the serving size limit.  content_hash is the caller's hash of
\* the extracted content, so a hash stands for one extracted content.
ExtractOf(hash) == IF hash = "h2" THEN "eBig" ELSE "e1"

\* Readings of the wall clock (new Date()) a render may see.
GeneratedAts == 0..MaxNow

\* Size limit of the serving route, in characters.
SizeLimit == 2 * 1024 * 1024

(* --------------------------- pure functions --------------------------- *)

RECURSIVE StripLeading(_)
StripLeading(s) ==
  IF s # <<>> /\ Head(s) = "/" THEN StripLeading(Tail(s)) ELSE s

RECURSIVE StripTrailing(_)
StripTrailing(s) ==
  IF s # <<>> /\ s[Len(s)] = "/" THEN StripTrailing(SubSeq(s, 1, Len(s) - 1)) ELSE s

\* derivePath: pathname without leading/trailing slashes, 'index' when that
\* is empty or when the URL does not parse.
derivePath(sourceUrl) ==
  IF ~sourceUrl.valid THEN INDEX
  ELSE LET path == StripTrailing(StripLeading(sourceUrl.pathname))
       IN IF path = <<>> THEN INDEX ELSE path

\* renderMarkdown: front matter (source_url, generated_at, content_hash) and
\* the extracted content.
renderMarkdown(extractedContent, sourceUrl, contentHash, generatedAt) ==
  [source_url |-> sourceUrl, generated_at |-> generatedAt,
   content_hash |-> contentHash, body |-> extractedContent]

\* new URL(sourceUrl) in renderMarkdown throws on a string that is no URL.
renderThrows(sourceUrl) == ~sourceUrl.valid

\* content.length of a rendered document.
ContentLength(content) ==
  IF content.body = "eBig" THEN SizeLimit + 1 ELSE 64

(* ------------------------------ state --------------------------------- *)

VARIABLES
  mv,      \* markdown_versions: sequence of rows, committed state
  vd,      \* verified_domains: domain -> "none" | "unverified" | "verified"
  last,    \* the last completed call of the one-at-a-time specification
  pc,      \* concurrent requests: position of each request
  req,     \* concurrent requests: the call and its arguments
  loc,     \* concurrent requests: local variables of the handler
  lock,    \* row locks: pairs <<row id, holder>>
  wr,      \* uncommitted is_active writes of each open transaction
  obs,     \* what each completed request returned
  mv0,     \* the table when the concurrent requests arrived
  sw,      \* history: per key, the last switch of the active version
  redisOn, \* CacheService.redis is a RedisCache (REDIS_URL was set)
  rkv,     \* Redis: key -> {} (absent) or {[val, exp]}
  shopsTab,\* SQLite table shops
  refTabs, \* SQLite tables districts and pricing_reference
  corpus,  \* the corpus files as loadCorpusFiles reads them
  now,     \* wall clock, seconds
  cres,    \* the last completed CacheService call
  mg       \* the last merge of BkkMassageMergeService

vars == <<mv, vd, last, pc, req, loc, lock, wr, obs, mv0, sw,
          redisOn, rkv, shopsTab, refTabs, corpus, now, cres, mg>>

concVars == <<pc, req, loc, lock, wr, obs, mv0>>

cacheVars == <<redisOn, rkv, shopsTab, refTabs, corpus, now, cres>>

libVars == <<cacheVars, mg>>

mdVars == <<mv, vd, last, sw, concVars>>

(* ------------------- tiered cache: data and tiers --------------------- *)

\* The clock advances MaxTicks times by TickSeconds.
MaxTicks == 1

\* setShops(shops, district = null, ttl = 3600)
ShopsTtl == 3600

\* setDistrictProfiles / setPricingReference (ttl = 86400)
RefTtl == 86400

\* this.isRecent(lastUpdated, 3600)
FreshWindow == 3600

TickSeconds == ShopsTtl + 1

Times == {k * TickSeconds : k \in 0..MaxTicks}

\* A record without last_updated; a Redis key without expiry.
NoStamp == 0 - 1

ShopIds == {"s1", "s2"}

DistrictOf(id) == IF id = "s1" THEN "Asok" ELSE "Nana"

\* The shops' ratings (ORDER BY rating DESC puts s1 first).
RatingOf(id) == IF id = "s1" THEN 2 ELSE 1

\* getShops(district = null)
NoDistrict == "null"

DistrictArgs == {NoDistrict, "Asok"}

ShopRec(id, stamp) ==
  [id |-> id, district |-> DistrictOf(id), rating |-> RatingOf(id), last_updated |-> stamp]

\* Lists of shop records without last_updated, one record per id.
ShopLists == SUBSET {ShopRec(id, NoStamp) : id \in ShopIds}

\* CACHE_KEYS
ShopsKey(district) ==
  IF district = NoDistrict THEN <<"bkk_massage:shops">>
  ELSE <<"bkk_massage:shops:district", district>>

DistrictsKey == <<"bkk_massage:districts">>

PricingKey == <<"bkk_massage:pricing">>

LastUpdatedKey == <<"bkk_massage:last_updated">>

RedisKeys ==
  {ShopsKey(d) : d \in DistrictArgs} \cup {DistrictsKey, PricingKey, LastUpdatedKey}

\* A completed call: what it returned (out, threw), the tier that answered
\* (src), the tier accesses it made in order (acc), those that failed (fail),
\* what the fast and the durable tier held when it started (fast, dur), the
\* time (t) and the parity of its number (odd); dur is "skipped" when the call
\* did not read the durable tier.
NoCacheCall ==
  [op |-> "none", key |-> NoDistrict, arg |-> {}, out |-> {}, src |-> "none",
   acc |-> <<>>, fail |-> {}, threw |-> FALSE, fast |-> "off", dur |-> "empty",
   t |-> 0, odd |-> FALSE]

NoMerge == [op |-> "none"]

\* The cache service and the merge service have not been used.
LibIdle ==
  /\ redisOn = FALSE
  /\ rkv = [k \in RedisKeys |-> {}]
  /\ shopsTab = {}
  /\ refTabs = [districts |-> {}, pricing |-> {}]
  /\ corpus = [shops |-> {}, districts |-> {}, pricing |-> {}]
  /\ now = 0
  /\ cres = NoCacheCall
  /\ mg = NoMerge

(* ----------------------------- SQL helpers ---------------------------- *)

\* WHERE domain = $1 AND path = $2 AND content_hash = $3
RowsOfTriple(tab, domain, path, hash) ==
  {r \in tab : r.domain = domain /\ r.path = path /\ r.content_hash = hash}

\* WHERE domain = $1 AND path = $2
RowsOfKey(tab, domain, path) ==
  {r \in tab : r.domain = domain /\ r.path = path}

\* WHERE domain = $1 AND path = $2 AND is_active = true
ActiveOfKey(tab, domain, path) ==
  {r \in RowsOfKey(tab, domain, path) : r.is_active}

\* WHERE id = $1
RowsOfId(tab, id) == {r \in tab : r.id = id}

IdsOf(rows) == {r.id : r \in rows}

\* UPDATE markdown_versions SET is_active = v WHERE (id in S)
SetActive(tab, S, v) ==
  {IF r.id \in S THEN [r EXCEPT !.is_active = v] ELSE r : r \in tab}

\* A nullable column holds the empty set for NULL and {v} for the value v;
\* column = $n is true only of a non-NULL column holding that value.
SqlNull == {}

SqlEq(column, v) == v \in column

\* INSERT INTO markdown_versions (domain, path, content, content_hash,
\* is_active) VALUES ($1, $2, $3, $4, false): the columns that are not
\* listed, source_url among them, keep their default.
NewRow(tab, domain, path, content, hash) ==
  [id |-> RowId(domain, path, hash, Cardinality(RowsOfTriple(tab, domain, path, hash)) + 1),
   domain |-> domain, path |-> path, content_hash |-> hash,
   content |-> content, source_url |-> SqlNull, is_active |-> FALSE]

\* Mutant of ActivateTx: the deactivation step is missing.
ActivateTxNoDeactivate(tab, deact, act) == SetActive(tab, act, TRUE)

\* Deactivate the rows of deact, then activate the rows of act (the two
\* UPDATE statements between BEGIN and COMMIT).
ActivateTx(tab, deact, act) ==
  SetActive(SetActive(tab, deact, FALSE), act, TRUE)

\* Mutant of Upsert: a plain INSERT on a table without the UNIQUE constraint.
UpsertAlwaysInsert(tab, domain, path, content, hash) ==
  LET row == NewRow(tab, domain, path, content, hash)
  IN [mv |-> tab \cup {row}, id |-> row.id]

\* INSERT ... ON CONFLICT (domain, path, content_hash) DO UPDATE SET
\* content = EXCLUDED.content RETURNING id
Upsert(tab, domain, path, content, hash) ==
  LET conflict == RowsOfTriple(tab, domain, path, hash)
      row == NewRow(tab, domain, path, content, hash)
  IN IF conflict = {}
     THEN [mv |-> tab \cup {row}, id |-> row.id]
     ELSE [mv |-> {IF r \in conflict THEN [r EXCEPT !.content = content] ELSE r : r \in tab},
           id |-> (CHOOSE r \in conflict : TRUE).id]

(* ------------------- handlers, run to completion ---------------------- *)

\* Mutant of activateMarkdown: the key is deactivated before the version
\* check.
activateMarkdownDeactivatesFirst(tab, domain, path, content_hash) ==
  LET versionCheck == RowsOfTriple(tab, domain, path, content_hash)
      cleared == SetActive(tab, IdsOf(RowsOfKey(tab, domain, path)), FALSE)
      key == IdsOf(RowsOfKey(tab, domain, path))
  IN IF versionCheck = {} THEN [mv |-> cleared, out |-> "not_found", wrote |-> key]
     ELSE IF (CHOOSE r \in versionCheck : TRUE).is_active
     THEN [mv |-> tab, out |-> "already_active", wrote |-> key]
     ELSE [mv |-> SetActive(cleared, IdsOf(versionCheck), TRUE), out |-> "activated",
           wrote |-> key]

\* POST /v1/admin/activate
activateMarkdown(tab, domain, path, content_hash) ==
  LET versionCheck == RowsOfTriple(tab, domain, path, content_hash)
  IN IF versionCheck = {} THEN [mv |-> tab, out |-> "not_found", wrote |-> {}]
     ELSE LET targetVersion == CHOOSE r \in versionCheck : TRUE
          IN IF targetVersion.is_active
             THEN [mv |-> tab, out |-> "already_active", wrote |-> {}]
             ELSE [mv |-> ActivateTx(tab, IdsOf(RowsOfKey(tab, domain, path)),
                                     IdsOf(versionCheck)),
                   out |-> "activated",
                   wrote |-> IdsOf(RowsOfKey(tab, domain, path))]

\* Mutant of activateMarkdownById: the transaction runs whether or not the
\* target is active.
activateMarkdownByIdRunsAnyway(tab, version_id) ==
  LET versionCheck == RowsOfId(tab, version_id)
  IN IF versionCheck = {} THEN [mv |-> tab, out |-> "not_found", wrote |-> {}]
     ELSE LET targetVersion == CHOOSE r \in versionCheck : TRUE
              key == IdsOf(RowsOfKey(tab, targetVersion.domain, targetVersion.path))
          IN [mv |-> ActivateTx(tab, key, {version_id}),
              out |-> IF targetVersion.is_active THEN "already_active" ELSE "activated",
              wrote |-> key]

\* POST /v1/admin/activate-by-id
activateMarkdownById(tab, version_id) ==
  LET versionCheck == RowsOfId(tab, version_id)
  IN IF versionCheck = {} THEN [mv |-> tab, out |-> "not_found", wrote |-> {}]
     ELSE LET targetVersion == CHOOSE r \in versionCheck : TRUE
          IN IF targetVersion.is_active
             THEN [mv |-> tab, out |-> "already_active", wrote |-> {}]
             ELSE [mv |-> ActivateTx(tab,
                            IdsOf(RowsOfKey(tab, targetVersion.domain, targetVersion.path)),
                            {version_id}),
                   out |-> "activated",
                   wrote |-> IdsOf(RowsOfKey(tab, targetVersion.domain, targetVersion.path))]

\* Mutant of deactivateMarkdown: the UPDATE lacks "AND content_hash = $3".
deactivateMarkdownWholeKey(tab, domain, path, content_hash) ==
  LET versionCheck == RowsOfTriple(tab, domain, path, content_hash)
  IN IF versionCheck = {} THEN [mv |-> tab, out |-> "not_found", wrote |-> {}]
     ELSE LET targetVersion == CHOOSE r \in versionCheck : TRUE
          IN IF ~targetVersion.is_active
             THEN [mv |-> tab, out |-> "already_inactive", wrote |-> {}]
             ELSE [mv |-> SetActive(tab, IdsOf(RowsOfKey(tab, domain, path)), FALSE),
                   out |-> "deactivated", wrote |-> IdsOf(RowsOfKey(tab, domain, path))]

\* POST /v1/admin/deactivate
deactivateMarkdown(tab, domain, path, content_hash) ==
  LET versionCheck == RowsOfTriple(tab, domain, path, content_hash)
  IN IF versionCheck = {} THEN [mv |-> tab, out |-> "not_found", wrote |-> {}]
     ELSE LET targetVersion == CHOOSE r \in versionCheck : TRUE
          IN IF ~targetVersion.is_active
             THEN [mv |-> tab, out |-> "already_inactive", wrote |-> {}]
             ELSE [mv |-> SetActive(tab, IdsOf(versionCheck), FALSE),
                   out |-> "deactivated", wrote |-> IdsOf(versionCheck)]

\* The existence check of POST /v1/render:
\* WHERE domain = $1 AND source_url = $2 AND content_hash = $3
renderExisting(tab, domain, source_url, content_hash) ==
  {r \in tab : r.domain = domain /\ SqlEq(r.source_url, source_url)
               /\ r.content_hash = content_hash}

\* Mutant of renderMarkdownRoute: the new version is activated whether or not
\* the domain is verified.
renderMarkdownRouteActivatesAlways(tab, vdom, domain, source_url, content_hash, extracted, generatedAt) ==
  IF renderExisting(tab, domain, source_url, content_hash) # {}
  THEN [mv |-> tab, out |-> "duplicate"]
  ELSE IF renderThrows(source_url) THEN [mv |-> tab, out |-> "error"]
  ELSE LET path == derivePath(source_url)
           markdownContent == renderMarkdown(extracted, source_url, content_hash, generatedAt)
           ins == Upsert(tab, domain, path, markdownContent, content_hash)
           versionId == ins.id
       IN [mv |-> ActivateTx(ins.mv, IdsOf(RowsOfKey(ins.mv, domain, path)) \ {versionId},
                             {versionId}),
           out |-> IF vdom[domain] = "verified" THEN "rendered_active" ELSE "rendered"]

\* POST /v1/render
renderMarkdownRoute(tab, vdom, domain, source_url, content_hash, extracted, generatedAt) ==
  IF renderExisting(tab, domain, source_url, content_hash) # {}
  THEN [mv |-> tab, out |-> "duplicate"]
  ELSE IF renderThrows(source_url) THEN [mv |-> tab, out |-> "error"]
  ELSE LET path == derivePath(source_url)
           markdownContent == renderMarkdown(extracted, source_url, content_hash, generatedAt)
           isDomainVerified == vdom[domain] = "verified"
           ins == Upsert(tab, domain, path, markdownContent, content_hash)
           versionId == ins.id
       IN IF isDomainVerified
          THEN [mv |-> ActivateTx(ins.mv,
                         IdsOf(RowsOfKey(ins.mv, domain, path)) \ {versionId}, {versionId}),
                out |-> "rendered_active"]
          ELSE [mv |-> ins.mv, out |-> "rendered"]

\* GET /{domain}/{path} of md-server.js.  rows[0] is any of the active rows.
serveMarkdown(tab, vdom, domain, path, row) ==
  IF vdom[domain] = "none" THEN [out |-> "domain_not_found", body |-> {}]
  ELSE IF vdom[domain] # "verified" THEN [out |-> "forbidden", body |-> {}]
  ELSE IF ActiveOfKey(tab, domain, path) = {} THEN [out |-> "not_found", body |-> {}]
  ELSE IF ContentLength(row.content) > SizeLimit
       THEN [out |-> "content_too_large", body |-> {}]
  ELSE [out |-> "ok", body |-> {row.content}]

\* GET /{domain}/{path} of the setupServer() variant of md-server.js.
serveMarkdownSetup(tab, vdom, domain, path, row) ==
  IF vdom[domain] = "none" THEN [out |-> "domain_not_found", body |-> {}]
  ELSE IF ActiveOfKey(tab, domain, path) = {} THEN [out |-> "not_found", body |-> {}]
  ELSE [out |-> "ok", body |-> {row.content}]

\* No row (an empty result).
NoRow == [id |-> <<>>]

\* Mutant of FirstRows: the SELECT lacks "AND is_active = true".
FirstRowsAnyVersion(tab, domain, path) ==
  IF RowsOfKey(tab, domain, path) = {} THEN {NoRow} ELSE RowsOfKey(tab, domain, path)

\* The rows a serving SELECT may return first.
FirstRows(tab, domain, path) ==
  IF ActiveOfKey(tab, domain, path) = {} THEN {NoRow} ELSE ActiveOfKey(tab, domain, path)

\* GET /v1/admin/versions: active_count of the key.
listMarkdownVersions(tab, domain, path) ==
  Cardinality(ActiveOfKey(tab, domain, path))

(* -------------------- one call at a time: actions --------------------- *)

Procs == {1, 2}

\* No call yet.  Of a completed call, wrote holds the ids of the rows its
\* INSERT and UPDATE statements wrote (SET ..., updated_at = NOW()).
NoCall ==
  [op |-> "none", a |-> <<>>, out |-> "none", body |-> {}, had |-> "new", was |-> {},
   wrote |-> {}]

NoReq == [op |-> "none", a |-> <<>>]

NoLoc == [key |-> <<>>, target |-> {}, verified |-> FALSE, scan |-> {}, seen |-> -1, hit |-> FALSE]

NoObs == [out |-> "none", body |-> {}, n |-> -1, mid |-> FALSE]

Keys == Domains \X Paths

ConcIdle ==
  /\ pc = [p \in Procs |-> "idle"]
  /\ req = [p \in Procs |-> NoReq]
  /\ loc = [p \in Procs |-> NoLoc]
  /\ lock = {}
  /\ wr = [p \in Procs |-> {}]
  /\ obs = [p \in Procs |-> NoObs]

Init ==
  /\ mv = {}
  /\ vd = [d \in Domains |-> "none"]
  /\ last = NoCall
  /\ sw = [k \in Keys |-> {}]
  /\ ConcIdle
  /\ mv0 = {}
  /\ LibIdle

\* What the caller knew of the target before the call: no row ("new"), a row
\* rendered from the same source URL ("same") or from another one ("other").
Had(rows, u) ==
  IF rows = {} THEN "new"
  ELSE IF \E r \in rows : r.content.source_url = u THEN "same"
  ELSE "other"

\* The key of the row with this id, <<>> when there is none.
KeyOfId(tab, id) ==
  IF RowsOfId(tab, id) = {} THEN <<>>
  ELSE LET r == CHOOSE x \in RowsOfId(tab, id) : TRUE IN <<r.domain, r.path>>

\* POST /v1/verify/initiate
InitiateVerification(d) ==
  /\ vd' = [vd EXCEPT ![d] = IF @ = "none" THEN "unverified" ELSE @]
  /\ last' = [NoCall EXCEPT !.op = "initiate", !.a = <<d>>,
                            !.out = IF vd[d] = "verified" THEN "conflict" ELSE "ok"]
  /\ UNCHANGED <<mv, sw, concVars, libVars>>

\* POST /v1/verify/check; dnsFound is the outcome of the DNS TXT lookup.
CheckVerification(d, dnsFound) ==
  /\ vd' = [vd EXCEPT ![d] = IF @ = "unverified" /\ dnsFound THEN "verified" ELSE @]
  /\ last' = [NoCall EXCEPT !.op = "check", !.a = <<d>>,
                            !.out = IF vd[d] = "none" THEN "not_found"
                                    ELSE IF vd[d] = "verified" THEN "already_verified"
                                    ELSE IF dnsFound THEN "verified" ELSE "failed"]
  /\ UNCHANGED <<mv, sw, concVars, libVars>>

Render(d, u, h, e, g) ==
  LET r == renderMarkdownRoute(mv, vd, d, u, h, e, g)
      path == derivePath(u)
  IN /\ Cardinality(r.mv) <= MaxRows
     /\ mv' = r.mv
     /\ last' = [op |-> "render", a |-> <<d, path, h>>, out |-> r.out, body |-> {},
                 had |-> Had(RowsOfTriple(mv, d, path, h), u),
                 was |-> IdsOf(ActiveOfKey(mv, d, path)),
                 wrote |-> IF r.out = "rendered_active" THEN IdsOf(RowsOfKey(r.mv, d, path))
                           ELSE IF r.out = "rendered" THEN IdsOf(RowsOfTriple(r.mv, d, path, h))
                           ELSE {}]
     /\ sw' = IF r.out \in {"rendered", "rendered_active"}
              THEN [sw EXCEPT ![<<d, path>>] = {}] ELSE sw
     /\ UNCHANGED <<vd, concVars, libVars>>

\* The switch an activation made: from the versions active before to the
\* target, for a key that had another version active.
Switch(r, key, was, target) ==
  IF r.out # "activated" THEN sw
  ELSE [sw EXCEPT ![key] = IF was = {} THEN {} ELSE {[from |-> was, to |-> target]}]

Activate(d, p, h) ==
  LET r == activateMarkdown(mv, d, p, h)
      was == IdsOf(ActiveOfKey(mv, d, p))
  IN /\ mv' = r.mv
     /\ last' = [op |-> "activate", a |-> <<d, p, h>>, out |-> r.out, body |-> {},
                 had |-> IF RowsOfTriple(mv, d, p, h) = {} THEN "new" ELSE "same",
                 was |-> was, wrote |-> r.wrote]
     /\ sw' = Switch(r, <<d, p>>, was, IdsOf(RowsOfTriple(mv, d, p, h)))
     /\ UNCHANGED <<vd, concVars, libVars>>

ActivateById(id) ==
  LET r == activateMarkdownById(mv, id)
      key == KeyOfId(mv, id)
      was == IF key = <<>> THEN {} ELSE IdsOf(ActiveOfKey(mv, key[1], key[2]))
  IN /\ mv' = r.mv
     /\ last' = [op |-> "activateById", a |-> <<id>>, out |-> r.out, body |-> {},
                 had |-> IF key = <<>> THEN "new" ELSE "same", was |-> was,
                 wrote |-> r.wrote]
     /\ sw' = Switch(r, key, was, {id})
     /\ UNCHANGED <<vd, concVars, libVars>>

Deactivate(d, p, h) ==
  LET r == deactivateMarkdown(mv, d, p, h)
  IN /\ mv' = r.mv
     /\ last' = [op |-> "deactivate", a |-> <<d, p, h>>, out |-> r.out, body |-> {},
                 had |-> IF RowsOfTriple(mv, d, p, h) = {} THEN "new" ELSE "same",
                 was |-> IdsOf(ActiveOfKey(mv, d, p)), wrote |-> r.wrote]
     /\ sw' = IF r.out = "deactivated" THEN [sw EXCEPT ![<<d, p>>] = {}] ELSE sw
     /\ UNCHANGED <<vd, concVars, libVars>>

ListVersions(d, p) ==
  /\ last' = [NoCall EXCEPT !.op = "list", !.a = <<d, p>>, !.out = "ok",
                            !.body = {listMarkdownVersions(mv, d, p)}]
  /\ UNCHANGED <<mv, vd, sw, concVars, libVars>>

Serve(d, p) ==
  /\ \E row \in FirstRows(mv, d, p) :
       LET r == serveMarkdown(mv, vd, d, p, row)
       IN last' = [NoCall EXCEPT !.op = "serve", !.a = <<d, p>>, !.out = r.out,
                                 !.body = r.body]
  /\ UNCHANGED <<mv, vd, sw, concVars, libVars>>

ServeSetup(d, p) ==
  /\ \E row \in FirstRows(mv, d, p) :
       LET r == serveMarkdownSetup(mv, vd, d, p, row)
       IN last' = [NoCall EXCEPT !.op = "serveSetup", !.a = <<d, p>>, !.out = r.out,
                                 !.body = r.body]
  /\ UNCHANGED <<mv, vd, sw, concVars, libVars>>

DoInitiateVerification == \E d \in Domains : InitiateVerification(d)

DoCheckVerification == \E d \in Domains, dnsFound \in BOOLEAN : CheckVerification(d, dnsFound)

DoRender ==
  \E d \in Domains, u \in SourceUrls, h \in Hashes, g \in GeneratedAts :
    Render(d, u, h, ExtractOf(h), g)

DoActivate == \E d \in Domains, p \in Paths, h \in Hashes : Activate(d, p, h)

DoActivateById == \E id \in Ids : ActivateById(id)

DoDeactivate == \E d \in Domains, p \in Paths, h \in Hashes : Deactivate(d, p, h)

DoListVersions == \E d \in Domains, p \in Paths : ListVersions(d, p)

DoServe == \E d \in Domains, p \in Paths : Serve(d, p)

DoServeSetup == \E d \in Domains, p \in Paths : ServeSetup(d, p)

Next ==
  \/ DoInitiateVerification
  \/ DoCheckVerification
  \/ DoRender
  \/ DoActivate
  \/ DoActivateById
  \/ DoDeactivate
  \/ DoListVersions
  \/ DoServe
  \/ DoServeSetup

Spec == Init /\ [][Next]_vars

(* ------------- the admin toggle and the endorsement toggle ------------- *)

\* POST /v1/admin/activate: one UPDATE sets is_active on every row of the
\* (domain, path); 404 when it matched no row.
adminActivateMarkdown(tab, domain, path, is_active) ==
  LET result == RowsOfKey(tab, domain, path)
  IN IF result = {} THEN [mv |-> tab, out |-> "not_found"]
     ELSE [mv |-> SetActive(tab, IdsOf(result), is_active), out |-> "ok"]

\* The endorsement-gated toggle: an activation is refused unless the page
\* carries the endorsement link (endorsementValid is what checkEndorsement
\* found on the page); then the same UPDATE as the admin toggle.
activateMarkdownWithEndorsement(tab, domain, path, is_active, endorsementValid) ==
  IF is_active /\ ~endorsementValid THEN [mv |-> tab, out |-> "no_endorsement"]
  ELSE adminActivateMarkdown(tab, domain, path, is_active)

Toggle(op, r, d, p, is_active) ==
  /\ mv' = r.mv
  /\ last' = [op |-> op, a |-> <<d, p, is_active>>, out |-> r.out, body |-> {},
              had |-> IF RowsOfKey(mv, d, p) = {} THEN "new" ELSE "same",
              was |-> IdsOf(ActiveOfKey(mv, d, p)),
              wrote |-> IF r.out = "ok" THEN IdsOf(RowsOfKey(mv, d, p)) ELSE {}]
  /\ sw' = IF r.out = "ok" THEN [sw EXCEPT ![<<d, p>>] = {}] ELSE sw
  /\ UNCHANGED <<vd, concVars, libVars>>

DoAdminToggle ==
  \E d \in Domains, p \in Paths, is_active \in BOOLEAN :
    Toggle("adminToggle", adminActivateMarkdown(mv, d, p, is_active), d, p, is_active)

DoEndorsementToggle ==
  \E d \in Domains, p \in Paths, is_active \in BOOLEAN, endorsementValid \in BOOLEAN :
    Toggle("endorsementToggle",
           activateMarkdownWithEndorsement(mv, d, p, is_active, endorsementValid),
           d, p, is_active)

\* The writers of is_active of the HTTP API, run one at a time.
NextToggle ==
  \/ DoRender
  \/ DoActivate
  \/ DoActivateById
  \/ DoDeactivate
  \/ DoAdminToggle
  \/ DoEndorsementToggle

SpecToggle == Init /\ [][NextToggle]_vars

(* ------------- the rebuild policy: ingestion and schedule -------------- *)

\* The content column of a version that is pending render (NULL).
NullContent ==
  [source_url |-> [valid |-> FALSE, pathname |-> <<"NULL">>], generated_at |-> 0 - 1,
   content_hash |-> "NULL", body |-> "NULL"]

\* The plain INSERT of the rebuild policy with content NULL.  It fails on a
\* (domain, path, content_hash) that is stored (the UNIQUE constraint), and
\* on a table whose content column is NOT NULL as migration 014 declares it;
\* contentNullable says which of the two schemas the table has.
InsertPending(tab, domain, path, hash, contentNullable) ==
  IF RowsOfTriple(tab, domain, path, hash) # {} \/ ~contentNullable
  THEN [mv |-> tab, id |-> <<>>, failed |-> TRUE]
  ELSE LET row == NewRow(tab, domain, path, NullContent, hash)
       IN [mv |-> tab \cup {row}, id |-> row.id, failed |-> FALSE]

\* ORDER BY generated_at DESC LIMIT 1 over the rows of the key: the table
\* keeps no generated_at, the rows of a key were inserted in one order or
\* another, so the latest is any one of them.
LatestRows(tab, domain, path) ==
  IF RowsOfKey(tab, domain, path) = {} THEN {NoRow} ELSE RowsOfKey(tab, domain, path)

\* POST /v1/rebuild/ingest (every field of the body present).
rebuildOnIngestion(tab, domain, source_url, content_hash, latest, contentNullable) ==
  LET path == derivePath(source_url)
      latestHash == IF latest = NoRow THEN {} ELSE {latest.content_hash}
  IN IF latestHash = {content_hash} THEN [mv |-> tab, out |-> "noop", wrote |-> {}]
     ELSE LET newContent == InsertPending(tab, domain, path, content_hash, contentNullable)
          IN IF newContent.failed THEN [mv |-> tab, out |-> "error", wrote |-> {}]
             ELSE [mv |-> newContent.mv, out |-> "new_version_created",
                   wrote |-> {newContent.id}]

\* One round of the loop of scheduledRebuild.  fetched is what the fetch of
\* version.source_url and the hashing gave ("fetch_failed" or the new hash);
\* fetch(null) throws, which the round catches.
scheduledRebuildVersion(tab, version, fetched, endorsementValid, contentNullable) ==
  IF version.source_url = SqlNull THEN [mv |-> tab, action |-> "error"]
  ELSE IF fetched = "fetch_failed" THEN [mv |-> tab, action |-> "fetch_failed"]
  ELSE IF fetched = version.content_hash THEN [mv |-> tab, action |-> "noop"]
  ELSE LET newVersion == InsertPending(tab, version.domain, version.path, fetched,
                                       contentNullable)
           key == IdsOf(RowsOfKey(newVersion.mv, version.domain, version.path))
       IN IF newVersion.failed THEN [mv |-> tab, action |-> "error"]
          ELSE IF endorsementValid
          THEN [mv |-> ActivateTx(newVersion.mv, key \ {newVersion.id}, {newVersion.id}),
                action |-> "rebuilt_activated"]
          ELSE [mv |-> newVersion.mv, action |-> "rebuilt_deactivated"]

\* POST /v1/rebuild/scheduled: the loop over the active versions in the
\* order the SELECT returned them; the result is the table and the actions.
RECURSIVE scheduledRebuild(_, _, _, _, _)
scheduledRebuild(tab, activeVersions, fetched, endorsementValid, contentNullable) ==
  IF activeVersions = <<>> THEN [mv |-> tab, data |-> <<>>]
  ELSE LET r == scheduledRebuildVersion(tab, Head(activeVersions), fetched,
                                        endorsementValid, contentNullable)
           rest == scheduledRebuild(r.mv, Tail(activeVersions), fetched,
                                    endorsementValid, contentNullable)
       IN [mv |-> rest.mv, data |-> <<r.action>> \o rest.data]

\* The orders a SELECT without ORDER BY may return the rows in.
RowOrders(rows) ==
  {f \in [1..Cardinality(rows) -> rows] : \A i, j \in DOMAIN f : f[i] = f[j] => i = j}

Ingest(d, u, h, latest, contentNullable) ==
  LET r == rebuildOnIngestion(mv, d, u, h, latest, contentNullable)
      path == derivePath(u)
  IN /\ Cardinality(r.mv) <= MaxRows
     /\ mv' = r.mv
     /\ last' = [op |-> "ingest", a |-> <<d, path, h>>, out |-> r.out, body |-> {},
                 had |-> IF RowsOfTriple(mv, d, path, h) = {} THEN "new" ELSE "same",
                 was |-> IdsOf(ActiveOfKey(mv, d, path)), wrote |-> r.wrote]
     /\ UNCHANGED <<vd, sw, concVars, libVars>>

ScheduledRebuild(activeVersions, fetched, endorsementValid, contentNullable) ==
  LET r == scheduledRebuild(mv, activeVersions, fetched, endorsementValid, contentNullable)
  IN /\ Cardinality(r.mv) <= MaxRows
     /\ mv' = r.mv
     /\ last' = [op |-> "scheduledRebuild", a |-> r.data, out |-> "ok", body |-> {},
                 had |-> "same", was |-> IdsOf({x \in mv : x.is_active}),
                 wrote |-> IdsOf(r.mv \ mv)]
     /\ UNCHANGED <<vd, sw, concVars, libVars>>

DoIngest ==
  \E d \in Domains, u \in SourceUrls, h \in Hashes, contentNullable \in BOOLEAN :
    \E latest \in LatestRows(mv, d, derivePath(u)) : Ingest(d, u, h, latest, contentNullable)

DoScheduledRebuild ==
  \E activeVersions \in RowOrders({x \in mv : x.is_active}),
     fetched \in Hashes \cup {"fetch_failed"},
     endorsementValid \in BOOLEAN, contentNullable \in BOOLEAN :
    ScheduledRebuild(activeVersions, fetched, endorsementValid, contentNullable)

\* Ingestion, the schedule, render and the activation calls, one at a time.
NextIngest ==
  \/ DoInitiateVerification
  \/ DoCheckVerification
  \/ DoRender
  \/ DoIngest
  \/ DoScheduledRebuild
  \/ DoActivate
  \/ DoActivateById
  \/ DoDeactivate

SpecIngest == Init /\ [][NextIngest]_vars

(* ------------- concurrent requests: READ COMMITTED, row locks --------- *)

\* The URL a stored document of a path was rendered from.
UrlOfPath(path) ==
  [valid |-> TRUE, pathname |-> IF path = INDEX THEN <<"/">> ELSE <<"/">> \o path]

\* A row as render stores it and activate / deactivate leave it.
StoredRow(t, active) ==
  [NewRow({}, t[1], t[2], renderMarkdown(ExtractOf(t[3]), UrlOfPath(t[2]), t[3], 0), t[3])
     EXCEPT !.is_active = active]

\* The tables the concurrent requests may find: what render, activate and
\* deactivate calls, run one at a time, leave behind.
ConcTables ==
  {tab \in SUBSET {StoredRow(t, b) : t \in Triples, b \in BOOLEAN} :
     /\ Cardinality(tab) <= MaxRows
     /\ \A t \in Triples : Cardinality(RowsOfTriple(tab, t[1], t[2], t[3])) <= 1
     /\ \A d \in Domains, p \in Paths : Cardinality(ActiveOfKey(tab, d, p)) <= 1}

InitConc ==
  /\ mv \in ConcTables
  /\ vd \in [Domains -> {"unverified", "verified"}]
  /\ last = NoCall
  /\ sw = [k \in Keys |-> {}]
  /\ ConcIdle
  /\ mv0 = mv
  /\ LibIdle

\* The row lock on id is free or held by p.
FreeFor(p, id) == \A l \in lock : l[1] = id => l[2] = p

\* is_active := v on row id in a write set (a later write replaces an earlier).
Write(w, id, v) == {x \in w : x[1] # id} \cup {<<id, v>>}

\* COMMIT: the write set of the transaction becomes the committed state.
ApplyWrites(tab, w) ==
  {IF \E x \in w : x[1] = r.id
   THEN [r EXCEPT !.is_active = (CHOOSE x \in w : x[1] = r.id)[2]]
   ELSE r : r \in tab}

\* Mutant of Rollback: the writes made so far stay.
RollbackKeepsWrites(tab, w) == ApplyWrites(tab, w)

\* ROLLBACK: the write set is discarded.
Rollback(tab, w) == tab

\* Mutant of StmtEffect: the statement is sent on the pool and autocommits.
StmtEffectAutocommit(tab, id, v) == SetActive(tab, {id}, v)

\* Between BEGIN and COMMIT a statement sent on the client changes only the
\* transaction's write set; the committed table is not touched.
StmtEffect(tab, id, v) == tab

\* The response.  Besides the outcome and the body, obs keeps what the call
\* saw: for a read, n is the number of active rows the SELECT returned and
\* mid tells whether another transaction had uncommitted writes on the key;
\* for an activation, n is the number of row writes of its transaction and
\* mid tells whether an UPDATE found a row of its snapshot locked; for
\* a render, n is the number of rows of the triple when the call arrived and
\* mid tells whether the INSERT took the ON CONFLICT branch.
Finish(p, out, body, n, mid) ==
  /\ pc' = [pc EXCEPT ![p] = "done"]
  /\ obs' = [obs EXCEPT ![p] = [out |-> out, body |-> body, n |-> n, mid |-> mid]]

\* Request p arrives. The requests are numbered in their order of arrival.
Arrives(p) ==
  /\ pc[p] = "idle"
  /\ \A q \in Procs : q < p => pc[q] # "idle"

Goto(p, label) ==
  /\ pc' = [pc EXCEPT ![p] = label]
  /\ obs' = obs

\* activateMarkdown up to the version check.
CallActivate(p, d, path, h) ==
  /\ Arrives(p)
  /\ req' = [req EXCEPT ![p] = [op |-> "activate", a |-> <<d, path, h>>]]
  /\ LET versionCheck == RowsOfTriple(mv, d, path, h)
     IN IF versionCheck = {}
        THEN Finish(p, "not_found", {}, -1, FALSE) /\ loc' = loc
        ELSE IF (CHOOSE r \in versionCheck : TRUE).is_active
        THEN Finish(p, "already_active", {}, -1, FALSE) /\ loc' = loc
        ELSE /\ Goto(p, "s1")
             /\ loc' = [loc EXCEPT ![p] = [key |-> <<d, path>>, target |-> IdsOf(versionCheck),
                                          verified |-> FALSE, scan |-> {},
                                          seen |-> -1, hit |-> FALSE]]
  /\ UNCHANGED <<mv, vd, last, lock, wr, mv0, sw, libVars>>

\* activateMarkdownById up to the version check.
CallActivateById(p, id) ==
  /\ Arrives(p)
  /\ req' = [req EXCEPT ![p] = [op |-> "activateById", a |-> <<id>>]]
  /\ LET versionCheck == RowsOfId(mv, id)
     IN IF versionCheck = {}
        THEN Finish(p, "not_found", {}, -1, FALSE) /\ loc' = loc
        ELSE LET targetVersion == CHOOSE r \in versionCheck : TRUE
             IN IF targetVersion.is_active
                THEN Finish(p, "already_active", {}, -1, FALSE) /\ loc' = loc
                ELSE /\ Goto(p, "s1")
                     /\ loc' = [loc EXCEPT ![p] =
                                  [key |-> <<targetVersion.domain, targetVersion.path>>,
                                   target |-> {id}, verified |-> FALSE, scan |-> {},
                                   seen |-> -1, hit |-> FALSE]]
  /\ UNCHANGED <<mv, vd, last, lock, wr, mv0, sw, libVars>>

\* deactivateMarkdown up to the version check.
CallDeactivate(p, d, path, h) ==
  /\ Arrives(p)
  /\ req' = [req EXCEPT ![p] = [op |-> "deactivate", a |-> <<d, path, h>>]]
  /\ LET versionCheck == RowsOfTriple(mv, d, path, h)
     IN IF versionCheck = {}
        THEN Finish(p, "not_found", {}, -1, FALSE) /\ loc' = loc
        ELSE IF ~(CHOOSE r \in versionCheck : TRUE).is_active
        THEN Finish(p, "already_inactive", {}, -1, FALSE) /\ loc' = loc
        ELSE /\ Goto(p, "update")
             /\ loc' = [loc EXCEPT ![p] = [key |-> <<d, path>>, target |-> IdsOf(versionCheck),
                                          verified |-> FALSE, scan |-> {},
                                          seen |-> -1, hit |-> FALSE]]
  /\ UNCHANGED <<mv, vd, last, lock, wr, mv0, sw, libVars>>

\* The UPDATE of deactivateMarkdown (pool.query: its own transaction).
DeactivateUpdate(p) ==
  /\ pc[p] = "update"
  /\ LET rows == IdsOf(RowsOfTriple(mv, req[p].a[1], req[p].a[2], req[p].a[3]))
     IN /\ \A id \in rows : FreeFor(p, id)
        /\ mv' = SetActive(mv, rows, FALSE)
  /\ Finish(p, "deactivated", {}, -1, FALSE)
  /\ UNCHANGED <<vd, last, req, loc, lock, wr, mv0, sw, libVars>>

\* renderMarkdownRoute up to the rendering: existence check, derivePath,
\* renderMarkdown.
CallRender(p, d, u, h, g) ==
  /\ Arrives(p)
  /\ req' = [req EXCEPT ![p] = [op |-> "render", a |-> <<d, derivePath(u), h, u, g>>]]
  /\ LET seen == Cardinality(RowsOfTriple(mv, d, derivePath(u), h))
     IN IF renderExisting(mv, d, u, h) # {}
        THEN Finish(p, "duplicate", {}, seen, FALSE) /\ loc' = loc
        ELSE IF renderThrows(u) THEN Finish(p, "error", {}, seen, FALSE) /\ loc' = loc
        ELSE /\ Goto(p, "domainCheck")
             /\ loc' = [loc EXCEPT ![p] = [NoLoc EXCEPT !.key = <<d, derivePath(u)>>,
                                                        !.seen = seen]]
  /\ UNCHANGED <<mv, vd, last, lock, wr, mv0, sw, libVars>>

\* SELECT verified_at FROM verified_domains
RenderDomainCheck(p) ==
  /\ pc[p] = "domainCheck"
  /\ loc' = [loc EXCEPT ![p].verified = vd[req[p].a[1]] = "verified"]
  /\ Goto(p, "upsert")
  /\ UNCHANGED <<mv, vd, last, req, lock, wr, mv0, sw, libVars>>

\* INSERT ... ON CONFLICT DO UPDATE (pool.query: its own transaction); it
\* waits for the lock of the conflicting row.
RenderUpsert(p) ==
  /\ pc[p] = "upsert"
  /\ LET a == req[p].a
         ins == Upsert(mv, a[1], a[2], renderMarkdown(ExtractOf(a[3]), a[4], a[3], a[5]), a[3])
     IN /\ \A id \in IdsOf(RowsOfTriple(mv, a[1], a[2], a[3])) : FreeFor(p, id)
        /\ Cardinality(ins.mv) <= MaxRows
        /\ mv' = ins.mv
        /\ loc' = [loc EXCEPT ![p].target = {ins.id}, ![p].hit = ins.id \in IdsOf(mv)]
        /\ IF loc[p].verified THEN Goto(p, "s1")
           ELSE Finish(p, "rendered", {}, loc[p].seen, ins.id \in IdsOf(mv))
  /\ UNCHANGED <<vd, last, req, lock, wr, mv0, sw, libVars>>

\* Mutant of Stmt1Rows: the first UPDATE matches no row.
Stmt1RowsNone(tab, r, l) == {}

\* The rows of the first UPDATE of the transaction: all rows of the key for
\* activate and activate-by-id, all but the new version for render.
Stmt1Rows(tab, r, l) ==
  IF r.op = "render"
  THEN IdsOf(RowsOfKey(tab, l.key[1], l.key[2])) \ l.target
  ELSE IdsOf(RowsOfKey(tab, l.key[1], l.key[2]))

\* The rows of the second UPDATE: the target version.
Stmt2Rows(tab, r, l) ==
  IF r.op = "activate"
  THEN IdsOf(RowsOfTriple(tab, r.a[1], r.a[2], r.a[3]))
  ELSE IdsOf(tab) \cap l.target

\* An UPDATE of the transaction starts (the first one after pool.connect()
\* and BEGIN, which change nothing): it takes its snapshot of the committed
\* rows.
StmtStart(p) ==
  /\ pc[p] \in {"s1", "s2"}
  /\ LET rows == IF pc[p] = "s1" THEN Stmt1Rows(mv, req[p], loc[p])
                 ELSE Stmt2Rows(mv, req[p], loc[p])
     IN /\ loc' = [loc EXCEPT ![p].scan = rows,
                              ![p].hit = IF req[p].op = "render" THEN @
                                         ELSE @ \/ \E id \in rows : ~FreeFor(p, id)]
        /\ Goto(p, IF rows # {} THEN (IF pc[p] = "s1" THEN "s1scan" ELSE "s2scan")
                   ELSE (IF pc[p] = "s1" THEN "s2" ELSE "commit"))
  /\ UNCHANGED <<mv, vd, last, req, lock, wr, mv0, sw, libVars>>

\* The UPDATE locks and writes one more row of its snapshot; it waits while
\* another transaction holds the row.
StmtRow(p, id) ==
  /\ pc[p] \in {"s1scan", "s2scan"}
  /\ id \in loc[p].scan
  /\ FreeFor(p, id)
  /\ lock' = lock \cup {<<id, p>>}
  /\ wr' = [wr EXCEPT ![p] = Write(@, id, pc[p] = "s2scan")]
  /\ mv' = StmtEffect(mv, id, pc[p] = "s2scan")
  /\ loc' = [loc EXCEPT ![p].scan = @ \ {id}]
  /\ Goto(p, IF loc[p].scan = {id}
             THEN (IF pc[p] = "s1scan" THEN "s2" ELSE "commit")
             ELSE pc[p])
  /\ UNCHANGED <<vd, last, req, mv0, sw, libVars>>

\* Mutant of TxCommit: the row locks of the transaction are not released.
TxCommitKeepsLocks(p) ==
  /\ pc[p] = "commit"
  /\ mv' = ApplyWrites(mv, wr[p])
  /\ wr' = [wr EXCEPT ![p] = {}]
  /\ lock' = lock
  /\ IF req[p].op = "render"
     THEN Finish(p, "rendered_active", {}, loc[p].seen, loc[p].hit)
     ELSE Finish(p, "activated", {}, Cardinality(wr[p]), loc[p].hit)
  /\ UNCHANGED <<vd, last, req, loc, mv0, sw, libVars>>

\* client.query('COMMIT') and the response.
TxCommit(p) ==
  /\ pc[p] = "commit"
  /\ mv' = ApplyWrites(mv, wr[p])
  /\ wr' = [wr EXCEPT ![p] = {}]
  /\ lock' = {l \in lock : l[2] # p}
  /\ IF req[p].op = "render"
     THEN Finish(p, "rendered_active", {}, loc[p].seen, loc[p].hit)
     ELSE Finish(p, "activated", {}, Cardinality(wr[p]), loc[p].hit)
  /\ UNCHANGED <<vd, last, req, loc, mv0, sw, libVars>>

\* catch: client.query('ROLLBACK'); activate rethrows (500 activation_failed),
\* render logs the error and goes on without activation.
TxAbort(p) ==
  /\ mv' = Rollback(mv, wr[p])
  /\ wr' = [wr EXCEPT ![p] = {}]
  /\ lock' = {l \in lock : l[2] # p}
  /\ IF req[p].op = "render"
     THEN Finish(p, "rendered", {}, loc[p].seen, loc[p].hit)
     ELSE Finish(p, "activation_failed", {}, Cardinality(wr[p]), loc[p].hit)
  /\ UNCHANGED <<vd, last, req, loc, mv0, sw, libVars>>

Waiting(p, q) ==
  /\ pc[p] \in {"s1scan", "s2scan"}
  /\ \E id \in loc[p].scan : <<id, q>> \in lock

\* PostgreSQL's deadlock detector: of two transactions that wait for each
\* other's row locks one gets an error.
DeadlockAbort(p) ==
  /\ \E q \in Procs \ {p} : Waiting(p, q) /\ Waiting(q, p)
  /\ TxAbort(p)

\* A statement of the transaction (BEGIN, an UPDATE, COMMIT) fails.
StmtFail(p) ==
  /\ pc[p] \in {"s1", "s1scan", "s2", "s2scan", "commit"}
  /\ TxAbort(p)

\* Another transaction has uncommitted writes on rows of the key.
MidTx(p, d, path) ==
  \E q \in Procs \ {p} : \E x \in wr[q] : x[1][1] = d /\ x[1][2] = path

\* The serving route up to the verified_domains check.
CallServe(p, d, path) ==
  /\ Arrives(p)
  /\ req' = [req EXCEPT ![p] = [op |-> "serve", a |-> <<d, path>>]]
  /\ IF vd[d] = "verified" THEN Goto(p, "select")
     ELSE Finish(p, serveMarkdown(mv, vd, d, path, NoRow).out, {}, -1, FALSE)
  /\ UNCHANGED <<mv, vd, last, loc, lock, wr, mv0, sw, libVars>>

\* The SELECT of the active version and the response.
ServeSelect(p) ==
  /\ pc[p] = "select"
  /\ \E row \in FirstRows(mv, req[p].a[1], req[p].a[2]) :
       LET r == serveMarkdown(mv, vd, req[p].a[1], req[p].a[2], row)
       IN Finish(p, r.out, r.body, listMarkdownVersions(mv, req[p].a[1], req[p].a[2]),
                 MidTx(p, req[p].a[1], req[p].a[2]))
  /\ UNCHANGED <<mv, vd, last, req, loc, lock, wr, mv0, sw, libVars>>

\* listMarkdownVersions: one SELECT.
CallList(p, d, path) ==
  /\ Arrives(p)
  /\ req' = [req EXCEPT ![p] = [op |-> "list", a |-> <<d, path>>]]
  /\ Finish(p, "ok", {}, listMarkdownVersions(mv, d, path), MidTx(p, d, path))
  /\ UNCHANGED <<mv, vd, last, loc, lock, wr, mv0, sw, libVars>>

CActivate == \E p \in Procs, d \in Domains, path \in Paths, h \in Hashes : CallActivate(p, d, path, h)

CActivateById == \E p \in Procs, id \in Ids : CallActivateById(p, id)

CDeactivate == \E p \in Procs, d \in Domains, path \in Paths, h \in Hashes : CallDeactivate(p, d, path, h)

CDeactivateUpdate == \E p \in Procs : DeactivateUpdate(p)

CRender ==
  \E p \in Procs, d \in Domains, u \in SourceUrls, h \in Hashes, g \in GeneratedAts :
    CallRender(p, d, u, h, g)

CRenderDomainCheck == \E p \in Procs : RenderDomainCheck(p)

CRenderUpsert == \E p \in Procs : RenderUpsert(p)

CStmtStart == \E p \in Procs : StmtStart(p)

CStmtRow == \E p \in Procs : \E id \in loc[p].scan : StmtRow(p, id)

CTxCommit == \E p \in Procs : TxCommit(p)

CDeadlockAbort == \E p \in Procs : DeadlockAbort(p)

CStmtFail == \E p \in Procs : StmtFail(p)

CServe == \E p \in Procs, d \in Domains, path \in Paths : CallServe(p, d, path)

CServeSelect == \E p \in Procs : ServeSelect(p)

CList == \E p \in Procs, d \in Domains, path \in Paths : CallList(p, d, path)

NextConc ==
  \/ CActivate
  \/ CActivateById
  \/ CDeactivate
  \/ CDeactivateUpdate
  \/ CRender
  \/ CRenderDomainCheck
  \/ CRenderUpsert
  \/ CStmtStart
  \/ CStmtRow
  \/ CTxCommit
  \/ CDeadlockAbort
  \/ CServe
  \/ CServeSelect
  \/ CList

SpecConc == InitConc /\ [][NextConc]_vars

\* The next statement of the call in flight of p.  PostgreSQL runs a
\* statement that waits for nothing, and the event loop resumes the handler
\* when the statement returns: a step that stays possible is taken.
ConcStep(p) ==
  \/ DeactivateUpdate(p)
  \/ RenderDomainCheck(p)
  \/ RenderUpsert(p)
  \/ StmtStart(p)
  \/ \E id \in loc[p].scan : StmtRow(p, id)
  \/ TxCommit(p)
  \/ DeadlockAbort(p)
  \/ ServeSelect(p)

\* The calls that write is_active, concurrently.
NextWriters ==
  \/ CActivate
  \/ CActivateById
  \/ CDeactivate
  \/ CDeactivateUpdate
  \/ CRender
  \/ CRenderDomainCheck
  \/ CRenderUpsert
  \/ CStmtStart
  \/ CStmtRow
  \/ CTxCommit
  \/ CDeadlockAbort

SpecWritersFair ==
  InitConc /\ [][NextWriters]_vars /\ \A p \in Procs : WF_vars(ConcStep(p))

\* Activations and readers only, with statements of the transaction that
\* may fail.
NextFail ==
  \/ CActivate
  \/ CActivateById
  \/ CStmtStart
  \/ CStmtRow
  \/ CTxCommit
  \/ CDeadlockAbort
  \/ CStmtFail
  \/ CServe
  \/ CServeSelect
  \/ CList

SpecFail == InitConc /\ [][NextFail]_vars

(* --------------- tiered cache: RedisCache, SQLiteCache ----------------- *)

\* redis.get: the value of a live key, {} for null.
RedisGet(kv, k) == {e.val : e \in kv[k]}

\* redis.setex(key, ttl, value) at time t
RedisSetex(kv, k, ttl, val, t) == [kv EXCEPT ![k] = {[val |-> val, exp |-> t + ttl]}]

\* redis.set(key, value)
RedisSet(kv, k, val) == [kv EXCEPT ![k] = {[val |-> val, exp |-> NoStamp]}]

\* Keys whose TTL has run out at time t are gone.
Expire(kv, t) == [k \in RedisKeys |-> {e \in kv[k] : e.exp = NoStamp \/ e.exp > t}]

\* RedisCache.getShops / getDistrictProfiles / getPricingReference: an error
\* of the client is caught and null returned.
RedisCacheGet(kv, k, fails) == IF fails THEN {} ELSE RedisGet(kv, k)

\* Mutant of RedisCacheSetShops: the entry is written with the TTL of the
\* reference data.
RedisCacheSetShopsRefTtl(kv, shops, district, t, fails) ==
  IF fails THEN kv ELSE RedisSetex(kv, ShopsKey(district), RefTtl, shops, t)

\* RedisCache.setShops: setex of the key of the district; an error is caught.
\* (The copy sorted by rating that is written with it is read by nothing and
\* is not part of the state.)
RedisCacheSetShops(kv, shops, district, t, fails) ==
  IF fails THEN kv ELSE RedisSetex(kv, ShopsKey(district), ShopsTtl, shops, t)

\* RedisCache.setDistrictProfiles / setPricingReference
RedisCacheSetRef(kv, k, val, t, fails) ==
  IF fails THEN kv ELSE RedisSetex(kv, k, RefTtl, val, t)

\* RedisCache.setLastUpdated
RedisCacheSetLastUpdated(kv, t, fails) ==
  IF fails THEN kv ELSE RedisSet(kv, LastUpdatedKey, {t})

\* SQLiteCache.getShops: an error is caught and [] returned.
SqliteGetShops(tab, district, fails) ==
  IF fails THEN {}
  ELSE IF district = NoDistrict THEN tab
  ELSE {r \in tab : r.district = district}

\* A shop as SQLiteCache.saveShops stores it and getShops reads it back:
\* value || null for the rating and the review count (0 is stored as NULL),
\* JSON.stringify(list || []) and JSON.parse for the lists, verified ? 1 : 0
\* and Boolean(row.verified); a field without a column (confidence) is gone.
\* A record that carries only the columns the tier logic reads is stored as
\* it is.
SqliteRow(x) ==
  IF "verified" \notin DOMAIN x THEN x
  ELSE [id |-> x.id, name |-> x.name, address |-> x.address, district |-> x.district,
        rating |-> x.rating \ {0}, review_count |-> x.review_count \ {0},
        pricing |-> IF x.pricing # {} THEN x.pricing ELSE {<<>>},
        line_usernames |-> IF x.line_usernames # {} THEN x.line_usernames ELSE {<<>>},
        websites |-> IF x.websites # {} THEN x.websites ELSE {<<>>},
        verified |-> {x.verified = {TRUE}},
        safety_signals |-> IF x.safety_signals # {} THEN x.safety_signals ELSE {<<>>},
        data_sources |-> IF "data_sources" \in DOMAIN x THEN x.data_sources ELSE <<>>,
        last_updated |-> x.last_updated]

\* SQLiteCache.saveShops: INSERT OR REPLACE of every shop in one transaction,
\* last_updated = new Date().
SqliteSaveShops(tab, shops, t) ==
  {r \in tab : \A x \in shops : x.id # r.id}
    \cup {[SqliteRow(x) EXCEPT !.last_updated = t] : x \in shops}

\* ORDER BY rating DESC: the rows that may come first.
TopRated(rows) == {r \in rows : \A x \in rows : x.rating <= r.rating}

NoShop == ShopRec("s1", NoStamp)

\* CacheService.isRecent at time t
isRecent(timestamp, maxAgeSeconds, t) ==
  timestamp # NoStamp /\ t - timestamp < maxAgeSeconds

\* loadCorpusFiles: {} for null (file missing or unreadable), else {value}.
loadCorpusFiles(file, fails) == IF fails THEN {} ELSE file

\* Array.isArray(v) ? v : [v]
AsArray(v) == IF v.array THEN v.items ELSE {v}

FailTags ==
  {"fast.get", "durable.get", "corpus.read", "durable.save", "fast.set", "fast.mark"}

\* The accesses that fail during one call: none, any one, both writes of a
\* warm-up or an update, every read, or all of them.
FailSets ==
  {{}} \cup {{x} : x \in FailTags}
    \cup {{"durable.save", "fast.set"}, {"fast.get", "durable.get", "corpus.read"}, FailTags}

IfRedis(acc) == IF redisOn THEN acc ELSE <<>>

\* Mutant of Hit: the cached value is ignored.
HitNever(cached) == FALSE

\* if (cached): a value, an empty list included, is a hit; null is not.
Hit(cached) == cached # {}

\* Mutant of TryCatch: the exception leaves the method.
TryRethrow(throws) == throws

\* try { ... } catch (e) { console.warn(...) }: whether the exception leaves
\* the method.
TryCatch(throws) == FALSE

(* ---------------------- tiered cache: CacheService -------------------- *)

\* CacheService.getShops(district) under the tier failures f; first is
\* sqliteShops[0].
getShops(district, f, first) ==
  LET cached == IF redisOn THEN RedisCacheGet(rkv, ShopsKey(district), "fast.get" \in f) ELSE {}
      sqliteShops == SqliteGetShops(shopsTab, district, "durable.get" \in f)
      fresh == sqliteShops # {} /\ isRecent(first.last_updated, FreshWindow, now)
      loaded == loadCorpusFiles(corpus.shops, "corpus.read" \in f)
      corpusShops == IF loaded = {} THEN {} ELSE CHOOSE l \in loaded : TRUE
  IN IF Hit(cached)
     THEN [out |-> CHOOSE v \in cached : TRUE, src |-> "fast", threw |-> FALSE,
           acc |-> <<"fast.get">>, rkv |-> rkv, tab |-> shopsTab]
     ELSE IF fresh
     THEN [out |-> sqliteShops, src |-> "durable", threw |-> FALSE,
           acc |-> IfRedis(<<"fast.get">>) \o <<"durable.get">> \o IfRedis(<<"fast.set">>),
           rkv |-> IF redisOn
                   THEN RedisCacheSetShops(rkv, sqliteShops, district, now, "fast.set" \in f)
                   ELSE rkv,
           tab |-> shopsTab]
     ELSE IF corpusShops # {}
     THEN [out |-> corpusShops, src |-> "corpus", threw |-> TryCatch("durable.save" \in f),
           acc |-> IfRedis(<<"fast.get">>) \o <<"durable.get", "corpus.read", "durable.save">>
                     \o IfRedis(<<"fast.set">>),
           rkv |-> IF redisOn
                   THEN RedisCacheSetShops(rkv, corpusShops, district, now, "fast.set" \in f)
                   ELSE rkv,
           tab |-> IF "durable.save" \in f THEN shopsTab
                   ELSE SqliteSaveShops(shopsTab, corpusShops, now)]
     ELSE [out |-> {}, src |-> "none", threw |-> FALSE,
           acc |-> IfRedis(<<"fast.get">>) \o <<"durable.get", "corpus.read">>,
           rkv |-> rkv, tab |-> shopsTab]

\* Mutant of updateShops: a failed durable write ends the update.
updateShopsStopsAtFailure(shops, f) ==
  [out |-> {}, src |-> "none", threw |-> FALSE,
   acc |-> <<"durable.save">> \o IfRedis(<<"fast.set", "fast.mark">>),
   tab |-> IF "durable.save" \in f THEN shopsTab ELSE SqliteSaveShops(shopsTab, shops, now),
   rkv |-> IF redisOn /\ "durable.save" \notin f
           THEN RedisCacheSetLastUpdated(
                  RedisCacheSetShops(rkv, shops, NoDistrict, now, "fast.set" \in f),
                  now, "fast.mark" \in f)
           ELSE rkv]

\* CacheService.updateShops(shops): saveShops throws on error and is caught
\* here; the two Redis writes catch their own errors.
updateShops(shops, f) ==
  [out |-> {}, src |-> "none", threw |-> TryCatch("durable.save" \in f),
   acc |-> <<"durable.save">> \o IfRedis(<<"fast.set", "fast.mark">>),
   tab |-> IF "durable.save" \in f THEN shopsTab ELSE SqliteSaveShops(shopsTab, shops, now),
   rkv |-> IF redisOn
           THEN RedisCacheSetLastUpdated(
                  RedisCacheSetShops(rkv, shops, NoDistrict, now, "fast.set" \in f),
                  now, "fast.mark" \in f)
           ELSE rkv]

\* CacheService.getDistrictProfiles / getPricingReference: k is the Redis
\* key, rows the SQLite table, file the corpus file.
getReference(k, rows, file, f) ==
  LET cached == IF redisOn THEN RedisCacheGet(rkv, k, "fast.get" \in f) ELSE {}
      sqlite == IF "durable.get" \in f THEN {} ELSE rows
      loaded == loadCorpusFiles(file, "corpus.read" \in f)
  IN IF Hit(cached)
     THEN [out |-> CHOOSE v \in cached : TRUE, src |-> "fast", threw |-> FALSE,
           acc |-> <<"fast.get">>, rkv |-> rkv, tab |-> shopsTab]
     ELSE IF sqlite # {}
     THEN [out |-> sqlite, src |-> "durable", threw |-> FALSE,
           acc |-> IfRedis(<<"fast.get">>) \o <<"durable.get">> \o IfRedis(<<"fast.set">>),
           rkv |-> IF redisOn THEN RedisCacheSetRef(rkv, k, sqlite, now, "fast.set" \in f)
                   ELSE rkv,
           tab |-> shopsTab]
     ELSE IF loaded # {}
     THEN [out |-> AsArray(CHOOSE v \in loaded : TRUE), src |-> "corpus", threw |-> FALSE,
           acc |-> IfRedis(<<"fast.get">>) \o <<"durable.get", "corpus.read">>,
           rkv |-> rkv, tab |-> shopsTab]
     ELSE [out |-> {}, src |-> "none", threw |-> FALSE,
           acc |-> IfRedis(<<"fast.get">>) \o <<"durable.get", "corpus.read">>,
           rkv |-> rkv, tab |-> shopsTab]

\* The failures of f that struck an access the call made.
Struck(acc, f) == {x \in f : \E i \in 1..Len(acc) : acc[i] = x}

\* What the fast tier holds for key k when a call starts.
FastSeen(k, f) ==
  IF ~redisOn THEN "off"
  ELSE IF "fast.get" \in f THEN "failed"
  ELSE IF rkv[k] = {} THEN "miss" ELSE "hit"

\* What the durable tier holds when a call starts: rows are the rows of the
\* key, first the row the staleness check reads.
DurSeen(rows, first, checked, f) ==
  IF "durable.get" \in f THEN "failed"
  ELSE IF rows = {} THEN "empty"
  ELSE IF checked /\ ~isRecent(first.last_updated, FreshWindow, now) THEN "stale"
  ELSE "fresh"

\* A CacheService call completes with result r.
CacheCall(op, key, arg, r, f, fast, dur) ==
  /\ rkv' = r.rkv
  /\ shopsTab' = r.tab
  /\ cres' = [op |-> op, key |-> key, arg |-> arg, out |-> r.out, src |-> r.src,
              acc |-> r.acc, fail |-> Struck(r.acc, f), threw |-> r.threw,
              fast |-> fast,
              dur |-> IF \E i \in 1..Len(r.acc) : r.acc[i] = "durable.get"
                      THEN dur ELSE "skipped",
              t |-> now, odd |-> ~cres.odd]
  /\ UNCHANGED <<redisOn, refTabs, corpus, now, mg, mdVars>>

GetShops(district, f) ==
  LET rows == SqliteGetShops(shopsTab, district, FALSE)
  IN \E first \in (IF rows = {} THEN {NoShop} ELSE TopRated(rows)) :
       CacheCall("getShops", district, {}, getShops(district, f, first), f,
                 FastSeen(ShopsKey(district), f), DurSeen(rows, first, TRUE, f))

UpdateShops(shops, f) ==
  CacheCall("updateShops", NoDistrict, shops, updateShops(shops, f), f, "off", "empty")

GetDistrictProfiles(f) ==
  CacheCall("getDistrictProfiles", NoDistrict, {},
            getReference(DistrictsKey, refTabs.districts, corpus.districts, f), f,
            FastSeen(DistrictsKey, f), DurSeen(refTabs.districts, NoShop, FALSE, f))

GetPricingReference(f) ==
  CacheCall("getPricingReference", NoDistrict, {},
            getReference(PricingKey, refTabs.pricing, corpus.pricing, f), f,
            FastSeen(PricingKey, f), DurSeen(refTabs.pricing, NoShop, FALSE, f))

\* Time passes; Redis drops the keys whose TTL has run out.
Tick ==
  /\ now < MaxTicks * TickSeconds
  /\ now' = now + TickSeconds
  /\ rkv' = Expire(rkv, now')
  /\ UNCHANGED <<redisOn, shopsTab, refTabs, corpus, cres, mg, mdVars>>

\* The corpus files.
CorpusShopsFiles == {{}, {{ShopRec(id, NoStamp) : id \in ShopIds}}}

CorpusRefFiles(x) == {{}, {[array |-> TRUE, items |-> {x}]}, {[array |-> FALSE, items |-> x]}}

\* The shops collection: the service starts with an empty SQLite file and an
\* empty Redis.
InitCache ==
  /\ mv = {}
  /\ vd = [d \in Domains |-> "none"]
  /\ last = NoCall
  /\ sw = [k \in Keys |-> {}]
  /\ ConcIdle
  /\ mv0 = {}
  /\ redisOn \in BOOLEAN
  /\ rkv = [k \in RedisKeys |-> {}]
  /\ shopsTab = {}
  /\ refTabs = [districts |-> {}, pricing |-> {}]
  /\ corpus \in {[shops |-> c, districts |-> {}, pricing |-> {}] : c \in CorpusShopsFiles}
  /\ now = 0
  /\ cres = NoCacheCall
  /\ mg = NoMerge

DoGetShops == \E district \in DistrictArgs, f \in FailSets : GetShops(district, f)

DoUpdateShops == \E shops \in ShopLists, f \in FailSets : UpdateShops(shops, f)

DoGetDistrictProfiles == \E f \in FailSets : GetDistrictProfiles(f)

DoGetPricingReference == \E f \in FailSets : GetPricingReference(f)

NextCache ==
  \/ DoGetShops
  \/ DoUpdateShops
  \/ Tick

SpecCache == InitCache /\ [][NextCache]_vars

\* The three reads at one instant, with the SQLite reference tables and the
\* corpus files as they may be found.
InitReads ==
  /\ mv = {}
  /\ vd = [d \in Domains |-> "none"]
  /\ last = NoCall
  /\ sw = [k \in Keys |-> {}]
  /\ ConcIdle
  /\ mv0 = {}
  /\ redisOn \in BOOLEAN
  /\ rkv = [k \in RedisKeys |-> {}]
  /\ shopsTab = {}
  /\ refTabs \in [districts : {{}, {"row"}}, pricing : {{}, {"row"}}]
  /\ corpus \in [shops : CorpusShopsFiles, districts : CorpusRefFiles("profile"),
                 pricing : CorpusRefFiles("price")]
  /\ now = 0
  /\ cres = NoCacheCall
  /\ mg = NoMerge

NextReads ==
  \/ DoGetShops
  \/ DoGetDistrictProfiles
  \/ DoGetPricingReference

SpecReads == InitReads /\ [][NextReads]_vars

(* ------------- tiered cache: calls that run concurrently --------------- *)

\* getShops up to the answer of the fast tier (await this.redis.getShops).
CallGetShops(p, district) ==
  /\ Arrives(p)
  /\ req' = [req EXCEPT ![p] = [op |-> "getShops", a |-> <<district>>]]
  /\ LET cached == IF redisOn THEN RedisCacheGet(rkv, ShopsKey(district), FALSE) ELSE {}
     IN IF Hit(cached)
        THEN Finish(p, "fast", cached, -1, FALSE)
        ELSE Goto(p, "durable")
  /\ UNCHANGED <<mv, vd, last, loc, lock, wr, mv0, sw, cacheVars, mg>>

\* Layer 2 and layer 3 of getShops up to the warm-up of the fast tier: the
\* read of SQLite, and on a miss the corpus file and its save in SQLite.
GetShopsDurable(p) ==
  /\ pc[p] = "durable"
  /\ LET district == req[p].a[1]
         sqliteShops == SqliteGetShops(shopsTab, district, FALSE)
         loaded == loadCorpusFiles(corpus.shops, FALSE)
         corpusShops == IF loaded = {} THEN {} ELSE CHOOSE l \in loaded : TRUE
     IN \E first \in (IF sqliteShops = {} THEN {NoShop} ELSE TopRated(sqliteShops)) :
          IF sqliteShops # {} /\ isRecent(first.last_updated, FreshWindow, now)
          THEN /\ loc' = [loc EXCEPT ![p] = [src |-> "durable", shops |-> sqliteShops]]
               /\ shopsTab' = shopsTab
               /\ IF redisOn THEN Goto(p, "warm")
                  ELSE Finish(p, "durable", {sqliteShops}, -1, FALSE)
          ELSE IF corpusShops # {}
          THEN /\ loc' = [loc EXCEPT ![p] = [src |-> "corpus", shops |-> corpusShops]]
               /\ shopsTab' = SqliteSaveShops(shopsTab, corpusShops, now)
               /\ IF redisOn THEN Goto(p, "warm")
                  ELSE Finish(p, "corpus", {corpusShops}, -1, FALSE)
          ELSE /\ loc' = loc
               /\ shopsTab' = shopsTab
               /\ Finish(p, "none", {{}}, -1, FALSE)
  /\ UNCHANGED <<mv, vd, last, req, lock, wr, mv0, sw, redisOn, rkv, refTabs, corpus, now,
                 cres, mg>>

\* The warm-up (await this.redis.setShops(shops, district)) and the return.
\* In obs, mid tells whether the rows of the key in SQLite are no longer the
\* ones this call read there.
GetShopsWarm(p) ==
  /\ pc[p] = "warm"
  /\ rkv' = RedisCacheSetShops(rkv, loc[p].shops, req[p].a[1], now, FALSE)
  /\ Finish(p, loc[p].src, {loc[p].shops}, -1,
            loc[p].src = "durable"
              /\ SqliteGetShops(shopsTab, req[p].a[1], FALSE) # loc[p].shops)
  /\ UNCHANGED <<mv, vd, last, req, loc, lock, wr, mv0, sw, redisOn, shopsTab, refTabs,
                 corpus, now, cres, mg>>

\* updateShops up to the write of the fast tier: this.sqlite.saveShops.
CallUpdateShops(p, shops) ==
  /\ Arrives(p)
  /\ req' = [req EXCEPT ![p] = [op |-> "updateShops", a |-> <<shops>>]]
  /\ shopsTab' = SqliteSaveShops(shopsTab, shops, now)
  /\ IF redisOn THEN Goto(p, "set") ELSE Finish(p, "updated", {}, -1, FALSE)
  /\ UNCHANGED <<mv, vd, last, loc, lock, wr, mv0, sw, redisOn, rkv, refTabs, corpus, now,
                 cres, mg>>

\* await this.redis.setShops(shops)
UpdateShopsSet(p) ==
  /\ pc[p] = "set"
  /\ rkv' = RedisCacheSetShops(rkv, req[p].a[1], NoDistrict, now, FALSE)
  /\ Goto(p, "mark")
  /\ UNCHANGED <<mv, vd, last, req, loc, lock, wr, mv0, sw, redisOn, shopsTab, refTabs,
                 corpus, now, cres, mg>>

\* await this.redis.setLastUpdated(...) and the return.
UpdateShopsMark(p) ==
  /\ pc[p] = "mark"
  /\ rkv' = RedisCacheSetLastUpdated(rkv, now, FALSE)
  /\ Finish(p, "updated", {}, -1, FALSE)
  /\ UNCHANGED <<mv, vd, last, req, loc, lock, wr, mv0, sw, redisOn, shopsTab, refTabs,
                 corpus, now, cres, mg>>

\* The two tiers when the calls arrive: the SQLite file holds what an
\* update of this hour left, Redis holds nothing (it was started or flushed
\* since, or was not reachable then).
InitWarm ==
  /\ mv = {}
  /\ vd = [d \in Domains |-> "none"]
  /\ last = NoCall
  /\ sw = [k \in Keys |-> {}]
  /\ ConcIdle
  /\ mv0 = {}
  /\ redisOn \in BOOLEAN
  /\ rkv = [k \in RedisKeys |-> {}]
  /\ shopsTab \in {SqliteSaveShops({}, shops, 0) : shops \in ShopLists}
  /\ refTabs = [districts |-> {}, pricing |-> {}]
  /\ corpus \in {[shops |-> c, districts |-> {}, pricing |-> {}] : c \in CorpusShopsFiles}
  /\ now = 0
  /\ cres = NoCacheCall
  /\ mg = NoMerge

WGetShops == \E p \in Procs, district \in DistrictArgs : CallGetShops(p, district)

WGetShopsDurable == \E p \in Procs : GetShopsDurable(p)

WGetShopsWarm == \E p \in Procs : GetShopsWarm(p)

WUpdateShops == \E p \in Procs, shops \in ShopLists : CallUpdateShops(p, shops)

WUpdateShopsSet == \E p \in Procs : UpdateShopsSet(p)

WUpdateShopsMark == \E p \in Procs : UpdateShopsMark(p)

NextWarm ==
  \/ WGetShops
  \/ WGetShopsDurable
  \/ WGetShopsWarm
  \/ WUpdateShops
  \/ WUpdateShopsSet
  \/ WUpdateShopsMark
  \/ Tick

SpecWarm == InitWarm /\ [][NextWarm]_vars

(* ------------------- BkkMassageMergeService: matching ------------------ *)

\* A string is the sequence of its characters; <<>> is a string that is
\* absent or empty (both are falsy in the guards of findMatchingShop).
UpperCase == <<"A", "B", "C", "D", "E", "F", "G", "H", "I", "J", "K", "L", "M",
               "N", "O", "P", "Q", "R", "S", "T", "U", "V", "W", "X", "Y", "Z">>

LowerCase == <<"a", "b", "c", "d", "e", "f", "g", "h", "i", "j", "k", "l", "m",
               "n", "o", "p", "q", "r", "s", "t", "u", "v", "w", "x", "y", "z">>

Digits == {"0", "1", "2", "3", "4", "5", "6", "7", "8", "9"}

\* String.prototype.toLowerCase
toLowerCase(str) ==
  [i \in 1..Len(str) |->
     IF \E k \in DOMAIN UpperCase : UpperCase[k] = str[i]
     THEN LowerCase[CHOOSE k \in DOMAIN UpperCase : UpperCase[k] = str[i]]
     ELSE str[i]]

IsAlnum(c) == c \in Digits \/ \E k \in DOMAIN LowerCase : LowerCase[k] = c

\* str.replace(/[^a-z0-9]/g, '')
stripNonAlnum(str) == SelectSeq(str, IsAlnum)

\* str.substring(0, n)
substring(str, n) == SubSeq(str, 1, IF n < Len(str) THEN n ELSE Len(str))

\* str.includes(part)
includes(str, part) ==
  \E i \in 0..(Len(str) - Len(part)) : SubSeq(str, i + 1, i + Len(part)) = part

\* n2.substring(0, 5) in isSimilarName
NamePrefix == 5

\* a2.substring(0, 10) in isSimilarAddress
AddrPrefix == 10

isSimilarName(name1, name2) ==
  IF name1 = <<>> \/ name2 = <<>> THEN FALSE
  ELSE LET n1 == stripNonAlnum(toLowerCase(name1))
           n2 == stripNonAlnum(toLowerCase(name2))
       IN includes(n1, substring(n2, NamePrefix)) \/ includes(n2, substring(n1, NamePrefix))

isSimilarAddress(addr1, addr2) ==
  IF addr1 = <<>> \/ addr2 = <<>> THEN FALSE
  ELSE LET a1 == toLowerCase(addr1)
           a2 == toLowerCase(addr2)
       IN includes(a1, substring(a2, AddrPrefix)) \/ includes(a2, substring(a1, AddrPrefix))

\* Array.prototype.find: the first element among those at the positions that
\* satisfy the test, as a set of at most one element ({} is undefined).
find(arr, satisfying) ==
  IF satisfying = {} THEN {}
  ELSE {arr[CHOOSE i \in satisfying : \A j \in satisfying : i <= j]}

ExactName(live, s) ==
  s.name # <<>> /\ live.name # <<>> /\ toLowerCase(s.name) = toLowerCase(live.name)

FuzzyName(live, s) ==
  s.name # <<>> /\ live.name # <<>> /\ isSimilarName(s.name, live.name)

AddressRule(live, s) ==
  s.address # <<>> /\ isSimilarAddress(s.address, live.address)

\* Mutant of findMatchingShop: the first record that any rule accepts.
findMatchingShopAnyRule(liveShop, corpusShops) ==
  find(corpusShops,
       {k \in DOMAIN corpusShops :
          \/ ExactName(liveShop, corpusShops[k])
          \/ FuzzyName(liveShop, corpusShops[k])
          \/ (liveShop.address # <<>> /\ AddressRule(liveShop, corpusShops[k]))})

\* findMatchingShop: {} is null.
findMatchingShop(liveShop, corpusShops) ==
  LET exact == find(corpusShops,
                    {k \in DOMAIN corpusShops : ExactName(liveShop, corpusShops[k])})
      fuzzy == IF exact # {} THEN exact
               ELSE find(corpusShops,
                         {k \in DOMAIN corpusShops : FuzzyName(liveShop, corpusShops[k])})
  IN IF corpusShops = <<>> THEN {}
     ELSE IF fuzzy = {} /\ liveShop.address # <<>>
     THEN find(corpusShops,
               {k \in DOMAIN corpusShops : AddressRule(liveShop, corpusShops[k])})
     ELSE fuzzy

(* ------------------- BkkMassageMergeService: merging ------------------- *)

\* A field that may be missing is the set of its values: {} is undefined.
\* list || fallback: undefined is falsy, every array is truthy.
OrElse(v, fallback) == IF v # {} THEN v ELSE fallback

\* flag || false: undefined and false are falsy.
OrFalse(v) == IF v = {TRUE} THEN v ELSE {FALSE}

\* corpus?.field, for a field that may be missing
FieldOf(match, field) ==
  IF match = {} THEN {} ELSE (CHOOSE c \in match : TRUE)[field]

\* corpus?.address
AddressOf(match) ==
  IF match = {} THEN <<>> ELSE (CHOOSE c \in match : TRUE).address

\* A double that calculateConfidence forms: the double nearest to tenths / 10,
\* or the one ulps above it.
Double(tenths) == [tenths |-> tenths, ulps |-> 0]

\* IEEE 754 addition of the doubles that calculateConfidence adds: 0.5 + 0.3,
\* 0.8 + 0.2, and x + 0.1 for x from 0.5 to 1.1 are the doubles nearest to the
\* decimal sums, except 1.1 + 0.1 = 1.2000000000000002.
DoubleAdd(x, y) ==
  [tenths |-> x.tenths + y.tenths,
   ulps |-> IF x.tenths + y.tenths = 12 THEN x.ulps + y.ulps + 1 ELSE x.ulps + y.ulps]

DoubleLess(x, y) ==
  x.tenths < y.tenths \/ (x.tenths = y.tenths /\ x.ulps < y.ulps)

\* Math.min
DoubleMin(x, y) == IF DoubleLess(y, x) THEN y ELSE x

\* live.rating > 4.0, ratings counted in tenths
RatingMark == 40

\* live.review_count > 10
ReviewMark == 10

\* value && value > mark: a missing value is falsy.
Above(v, mark) == v # {} /\ (CHOOSE x \in v : TRUE) > mark

\* Mutant of calculateConfidence: the score is not clamped.
calculateConfidenceUnclamped(live, match) ==
  LET start == Double(5)
      matched == IF match # {} THEN DoubleAdd(start, Double(3)) ELSE start
      verified == IF match # {} /\ FieldOf(match, "verified") = {TRUE}
                  THEN DoubleAdd(matched, Double(2)) ELSE matched
      rated == IF Above(live.rating, RatingMark)
               THEN DoubleAdd(verified, Double(1)) ELSE verified
  IN IF Above(live.review_count, ReviewMark) THEN DoubleAdd(rated, Double(1)) ELSE rated

\* calculateConfidence
calculateConfidence(live, match) ==
  LET start == Double(5)
      matched == IF match # {} THEN DoubleAdd(start, Double(3)) ELSE start
      verified == IF match # {} /\ FieldOf(match, "verified") = {TRUE}
                  THEN DoubleAdd(matched, Double(2)) ELSE matched
      rated == IF Above(live.rating, RatingMark)
               THEN DoubleAdd(verified, Double(1)) ELSE verified
      score == IF Above(live.review_count, ReviewMark)
               THEN DoubleAdd(rated, Double(1)) ELSE rated
  IN DoubleMin(score, Double(10))

\* Mutant of enrichWithCorpus: the live record's own verified and
\* safety_signals are used when it has them.
enrichWithCorpusLiveFlags(live, match) ==
  [name |-> live.name,
   address |-> IF live.address # <<>> THEN live.address ELSE AddressOf(match),
   rating |-> OrElse(live.rating, FieldOf(match, "rating")),
   review_count |-> OrElse(live.review_count, OrElse(FieldOf(match, "review_count"), {0})),
   pricing |-> OrElse(live.pricing, OrElse(FieldOf(match, "pricing"), {<<>>})),
   line_usernames |->
     OrElse(live.line_usernames, OrElse(FieldOf(match, "line_usernames"), {<<>>})),
   websites |-> OrElse(live.websites, OrElse(FieldOf(match, "websites"), {<<>>})),
   verified |-> IF live.verified # {} THEN live.verified ELSE OrFalse(FieldOf(match, "verified")),
   safety_signals |->
     OrElse(live.safety_signals, OrElse(FieldOf(match, "safety_signals"), {<<>>})),
   data_sources |-> <<"google_maps">> \o (IF match # {} THEN <<"corpus">> ELSE <<>>),
   confidence |-> calculateConfidence(live, match)]

\* mergeWithStrategy, case 'enrich_with_corpus': the fields of the merged
\* record that are made of the name, the address, the rating, the review
\* count, the lists, verified and safety_signals of the two records.
enrichWithCorpus(live, match) ==
  [name |-> live.name,
   address |-> IF live.address # <<>> THEN live.address ELSE AddressOf(match),
   rating |-> OrElse(live.rating, FieldOf(match, "rating")),
   review_count |-> OrElse(live.review_count, OrElse(FieldOf(match, "review_count"), {0})),
   pricing |-> OrElse(live.pricing, OrElse(FieldOf(match, "pricing"), {<<>>})),
   line_usernames |->
     OrElse(live.line_usernames, OrElse(FieldOf(match, "line_usernames"), {<<>>})),
   websites |-> OrElse(live.websites, OrElse(FieldOf(match, "websites"), {<<>>})),
   verified |-> OrFalse(FieldOf(match, "verified")),
   safety_signals |-> OrElse(FieldOf(match, "safety_signals"), {<<>>}),
   data_sources |-> <<"google_maps">> \o (IF match # {} THEN <<"corpus">> ELSE <<>>),
   confidence |-> calculateConfidence(live, match)]

\* [...(list || [])]
Spread(v) == IF v = {} THEN <<>> ELSE CHOOSE l \in v : TRUE

\* mergeWithStrategy, case 'corpus_priority', for a reference ref that is not
\* null: { ...corpus, rating, review_count, pricing, data_sources }.
corpusPriority(live, ref) ==
  [data_sources |-> <<"corpus", "google_maps">>]
    @@ [ref EXCEPT
          !.rating = OrElse(ref.rating, live.rating),
          !.review_count = OrElse(ref.review_count, live.review_count),
          !.pricing = {Spread(ref.pricing) \o Spread(live.pricing)}]

\* mergeWithStrategy throws: corpus.rating of a null corpus is a TypeError.
mergeThrows(match, strategy) == strategy = "corpus_priority" /\ match = {}

\* Mutant of mergeWithStrategy: an unknown strategy enriches.
mergeWithStrategyEnrichDefault(live, match, strategy) ==
  IF strategy = "corpus_priority" THEN corpusPriority(live, CHOOSE c \in match : TRUE)
  ELSE enrichWithCorpus(live, match)

\* mergeWithStrategy(live, corpus, district, pricing, strategy) when it does
\* not throw.
mergeWithStrategy(live, match, strategy) ==
  CASE strategy = "enrich_with_corpus" -> enrichWithCorpus(live, match)
    [] strategy = "corpus_priority" -> corpusPriority(live, CHOOSE c \in match : TRUE)
    [] OTHER -> live

\* The default of mergeShopData, the other strategy, and a tag that is
\* neither.
Strategies == {"enrich_with_corpus", "corpus_priority", "live_only"}

\* The reference collection holds at most MaxCorpus records.
MaxCorpus == 2

Lotus == <<"L", "o", "t", "u", "s">>

LOTUS == <<"L", "O", "T", "U", "S">>

LotusSpa == <<"L", "o", "t", "u", "s", "-", "S", "p", "a">>

Siam == <<"S", "i", "a", "m">>

SukhumvitRd == <<"1", "2", " ", "S", "u", "k", "h", "u", "m", "v", "i", "t", " ", "R", "d">>

SukhumvitRoad ==
  <<"1", "2", " ", "s", "u", "k", "h", "u", "m", "v", "i", "t", " ", "r", "o", "a", "d">>

SilomRd == <<"9", " ", "S", "i", "l", "o", "m">>

\* A list field: missing, empty, or with an entry x.
ListValues(x) == {{}, {<<>>}, {<<x>>}}

ListFields == {"pricing", "line_usernames", "websites"}

NonEmptyList(v) == v # {} /\ v # {<<>>}

\* The fields a record carries beside its name and address.
Extras ==
  [pricing : ListValues("p"), line_usernames : ListValues("l"),
   websites : ListValues("w"), verified : {{}, {FALSE}, {TRUE}},
   safety_signals : ListValues("s")]

\* Ratings in tenths: missing, 4.0, 4.5, 4.8.
Ratings == {{}, {40}, {45}, {48}}

ReviewCounts == {{}, {10}, {50}, {120}}

Shop(name, address, extra) ==
  [name |-> name, address |-> address, rating |-> {}, review_count |-> {},
   pricing |-> extra.pricing,
   line_usernames |-> extra.line_usernames, websites |-> extra.websites,
   verified |-> extra.verified, safety_signals |-> extra.safety_signals]

\* The same record with a rating and a review count.
Rated(shop, rating, count) == [shop EXCEPT !.rating = rating, !.review_count = count]

\* Reference records: nothing but name and address, every field present and
\* empty, every field filled.
CorpusExtras ==
  {e \in Extras :
     \/ \A field \in DOMAIN e : e[field] = {}
     \/ e.verified = {FALSE} /\ \A field \in DOMAIN e \ {"verified"} : e[field] = {<<>>}
     \/ e.verified = {TRUE} /\ \A field \in DOMAIN e \ {"verified"} :
                                 e[field] \notin {{}, {<<>>}}}

\* Names and addresses of the reference records: a name that is the live
\* name in another case, one that holds it, and one unrelated to it at the
\* live address or elsewhere.
CorpusPlaces ==
  {<<LOTUS, SilomRd>>, <<LotusSpa, SilomRd>>, <<Siam, SukhumvitRoad>>, <<Siam, SilomRd>>}

CorpusRecords == {Shop(at[1], at[2], e) : at \in CorpusPlaces, e \in CorpusExtras}

CorpusCollections == UNION {[1..n -> CorpusRecords] : n \in 0..MaxCorpus}

\* Live records that declare nothing about themselves; of pricing,
\* line_usernames and websites one is missing, one empty and one filled.
LiveExtras ==
  {e \in Extras :
     /\ e.verified = {} /\ e.safety_signals = {}
     /\ \E field \in ListFields : e[field] = {}
     /\ \E field \in ListFields : e[field] = {<<>>}
     /\ \E field \in ListFields : NonEmptyList(e[field])}

LiveRecords ==
  {Shop(name, address, e) :
     name \in {Lotus, <<>>}, address \in {SukhumvitRd, <<>>}, e \in LiveExtras}

\* The same live record declaring itself verified and safe.
SelfDeclared(live) ==
  [live EXCEPT !.verified = {TRUE}, !.safety_signals = {<<"self">>}]

\* mergeShopData about to map over liveShops with the reference collection
\* corpusShops.
MergeInputs ==
  {[op |-> "merge", mergeStrategy |-> "enrich_with_corpus",
    liveShops |-> <<live, SelfDeclared(live)>>, corpusShops |-> c,
    matches |-> <<>>, mergedShops |-> <<>>, threw |-> FALSE] :
     live \in LiveRecords, c \in CorpusCollections}

\* One step of liveShops.map in mergeShopData: the next live shop is matched
\* and merged; an exception of mergeWithStrategy ends the call.
MergeLiveShop ==
  /\ mg.op = "merge" /\ ~mg.threw
  /\ Len(mg.mergedShops) < Len(mg.liveShops)
  /\ LET liveShop == mg.liveShops[Len(mg.mergedShops) + 1]
         corpusMatch == findMatchingShop(liveShop, mg.corpusShops)
     IN IF mergeThrows(corpusMatch, mg.mergeStrategy)
        THEN mg' = [mg EXCEPT !.matches = Append(@, corpusMatch), !.threw = TRUE]
        ELSE mg' = [mg EXCEPT
                      !.matches = Append(@, corpusMatch),
                      !.mergedShops =
                         Append(@, mergeWithStrategy(liveShop, corpusMatch, mg.mergeStrategy))]
  /\ UNCHANGED <<cacheVars, mdVars>>

InitMerge ==
  /\ mv = {}
  /\ vd = [d \in Domains |-> "none"]
  /\ last = NoCall
  /\ sw = [k \in Keys |-> {}]
  /\ ConcIdle
  /\ mv0 = {}
  /\ redisOn = FALSE
  /\ rkv = [k \in RedisKeys |-> {}]
  /\ shopsTab = {}
  /\ refTabs = [districts |-> {}, pricing |-> {}]
  /\ corpus = [shops |-> {}, districts |-> {}, pricing |-> {}]
  /\ now = 0
  /\ cres = NoCacheCall
  /\ mg \in MergeInputs

NextMerge == MergeLiveShop

SpecMerge == InitMerge /\ [][NextMerge]_vars

\* One live shop with or without a rating and reviews, a reference
\* collection of at most one record with or without them, and a strategy.
StrategyInputs ==
  {[op |-> "merge", mergeStrategy |-> strategy,
    liveShops |-> <<Rated(live, rating, count)>>, corpusShops |-> c,
    matches |-> <<>>, mergedShops |-> <<>>, threw |-> FALSE] :
     strategy \in Strategies, live \in LiveRecords,
     rating \in Ratings \ {{45}}, count \in ReviewCounts \ {{50}},
     c \in {<<>>} \cup {<<Rated(ref, scored[1], scored[2])>> :
                          ref \in CorpusRecords, scored \in {<<{}, {}>>, <<{45}, {50}>>}}}

InitStrategy ==
  /\ mv = {}
  /\ vd = [d \in Domains |-> "none"]
  /\ last = NoCall
  /\ sw = [k \in Keys |-> {}]
  /\ ConcIdle
  /\ mv0 = {}
  /\ redisOn = FALSE
  /\ rkv = [k \in RedisKeys |-> {}]
  /\ shopsTab = {}
  /\ refTabs = [districts |-> {}, pricing |-> {}]
  /\ corpus = [shops |-> {}, districts |-> {}, pricing |-> {}]
  /\ now = 0
  /\ cres = NoCacheCall
  /\ mg \in StrategyInputs

SpecStrategy == InitStrategy /\ [][MergeLiveShop]_vars

(* ----------------- BkkMassageMergeService: extractDistrict -------------- *)

\* const districts = [...]
districts ==
  <<<<"A", "s", "o", "k">>,
    <<"N", "a", "n", "a">>,
    <<"P", "h", "r", "o", "m", " ", "P", "h", "o", "n", "g">>,
    <<"T", "h", "o", "n", "g", "l", "o", "r">>,
    <<"E", "k", "k", "a", "m", "a", "i">>,
    <<"S", "i", "l", "o", "m">>,
    <<"A", "r", "i">>,
    <<"V", "i", "c", "t", "o", "r", "y", " ", "M", "o", "n", "u", "m", "e", "n", "t">>,
    <<"R", "a", "t", "c", "h", "a", "d", "a">>,
    <<"O", "l", "d", " ", "C", "i", "t", "y">>>>

\* Mutant of extractDistrict: the last name of the list that occurs.
extractDistrictLastOfList(address) ==
  LET addressLower == toLowerCase(address)
      found == {k \in DOMAIN districts : includes(addressLower, toLowerCase(districts[k]))}
  IN IF address = <<>> \/ found = {} THEN {}
     ELSE {districts[CHOOSE k \in found : \A j \in found : j <= k]}

\* extractDistrict: {} is null.
extractDistrict(address) ==
  LET addressLower == toLowerCase(address)
  IN IF address = <<>> THEN {}
     ELSE find(districts,
               {k \in DOMAIN districts : includes(addressLower, toLowerCase(districts[k]))})

\* String.prototype.toUpperCase
toUpperCase(str) ==
  [i \in 1..Len(str) |->
     IF \E k \in DOMAIN LowerCase : LowerCase[k] = str[i]
     THEN UpperCase[CHOOSE k \in DOMAIN LowerCase : LowerCase[k] = str[i]]
     ELSE str[i]]

\* Words of an address that are no district names; the second holds "ari".
Sathorn == <<"S", "a", "t", "h", "o", "r", "n">>

Marine == <<"M", "a", "r", "i", "n", "e">>

\* Addresses: absent, or a street number, a word, a comma and a word, where a
\* word is a district name or not, as written, in capitals or in small
\* letters.
Addresses ==
  LET words == {districts[k] : k \in DOMAIN districts} \cup {Sathorn, Marine}
      written == {<<"7", " ">> \o first \o <<",", " ">> \o second :
                    first \in words, second \in words}
  IN {<<>>} \cup written \cup {toUpperCase(a) : a \in written}
       \cup {toLowerCase(a) : a \in written}

DistrictInputs == {[op |-> "district", address |-> a, out |-> {}, done |-> FALSE] : a \in Addresses}

\* extractDistrict(address) is called and returns.
ExtractDistrict ==
  /\ mg.op = "district" /\ ~mg.done
  /\ mg' = [mg EXCEPT !.out = extractDistrict(mg.address), !.done = TRUE]
  /\ UNCHANGED <<cacheVars, mdVars>>

InitDistrict ==
  /\ mv = {}
  /\ vd = [d \in Domains |-> "none"]
  /\ last = NoCall
  /\ sw = [k \in Keys |-> {}]
  /\ ConcIdle
  /\ mv0 = {}
  /\ redisOn = FALSE
  /\ rkv = [k \in RedisKeys |-> {}]
  /\ shopsTab = {}
  /\ refTabs = [districts |-> {}, pricing |-> {}]
  /\ corpus = [shops |-> {}, districts |-> {}, pricing |-> {}]
  /\ now = 0
  /\ cres = NoCacheCall
  /\ mg \in DistrictInputs

SpecDistrict == InitDistrict /\ [][ExtractDistrict]_vars

(* --------------- BkkMassageMergeService: isSimilarName ----------------- *)

\* A name without ASCII letters or digits.
Stars == <<"*", "*", "*">>

\* A name in another script, with a space.
Script == <<"#", " ", "#">>

ShopNames == {Lotus, LOTUS, LotusSpa, Siam, Stars, Script}

Bare == [pricing |-> {}, line_usernames |-> {}, websites |-> {}, verified |-> {},
         safety_signals |-> {}]

\* A live shop and a reference collection of one record.
NameInputs ==
  {[op |-> "match", liveShop |-> Shop(name, address, Bare),
    corpusShops |-> <<Shop(refName, refAddress, Bare)>>,
    similar |-> FALSE, match |-> {}, done |-> FALSE] :
     name \in ShopNames, address \in {<<>>, SukhumvitRd, SilomRd},
     refName \in ShopNames \ {Stars, Script}, refAddress \in {SukhumvitRoad, SilomRd}}

\* findMatchingShop(liveShop, corpusShops) is called and returns; similar is
\* what isSimilarName answered for the two names.
MatchLiveShop ==
  /\ mg.op = "match" /\ ~mg.done
  /\ mg' = [mg EXCEPT
              !.similar = isSimilarName(mg.corpusShops[1].name, mg.liveShop.name),
              !.match = findMatchingShop(mg.liveShop, mg.corpusShops),
              !.done = TRUE]
  /\ UNCHANGED <<cacheVars, mdVars>>

InitNames ==
  /\ mv = {}
  /\ vd = [d \in Domains |-> "none"]
  /\ last = NoCall
  /\ sw = [k \in Keys |-> {}]
  /\ ConcIdle
  /\ mv0 = {}
  /\ redisOn = FALSE
  /\ rkv = [k \in RedisKeys |-> {}]
  /\ shopsTab = {}
  /\ refTabs = [districts |-> {}, pricing |-> {}]
  /\ corpus = [shops |-> {}, districts |-> {}, pricing |-> {}]
  /\ now = 0
  /\ cres = NoCacheCall
  /\ mg \in NameInputs

SpecNames == InitNames /\ [][MatchLiveShop]_vars

(* ------------- BkkMassageMergeService over the CacheService ------------ *)

\* A shop record with the id and the columns the cache tiers keep.
Listed(id, name, address, verified) ==
  [id |-> id, name |-> name, address |-> address, district |-> extractDistrict(address),
   rating |-> {45}, review_count |-> {50}, pricing |-> {}, line_usernames |-> {},
   websites |-> {}, verified |-> verified, safety_signals |-> {},
   last_updated |-> NoStamp]

\* mergeShopData is called at most MaxCalls times.
MaxCalls == 2

\* shops_verified.ndjson: Lotus, verified or not.
ServiceCorpusFiles == {{ {Listed("c1", Lotus, SilomRd, {v})} } : v \in BOOLEAN}

\* Live records of the two shops under their Google Maps ids, silent about
\* verified or declaring themselves verified.
ServiceLiveShops ==
  {Listed(place[1], place[2], place[3], v) :
     place \in {<<"g1", Lotus, SilomRd>>, <<"g2", Siam, SukhumvitRoad>>},
     v \in {{}, {TRUE}}}

\* The orders in which the records of a collection may come.
Orderings(S) ==
  {q \in [1..Cardinality(S) -> S] : \A i, j \in 1..Cardinality(S) : i # j => q[i] # q[j]}

\* The record mergeWithStrategy returns, with the fields the cache keeps:
\* id (live.id || corpus?.id), district (extractDistrict(live.address) ||
\* corpus?.district) and last_updated for an enriched record.
mergedShop(live, match, strategy, t) ==
  IF strategy = "enrich_with_corpus"
  THEN enrichWithCorpus(live, match)
         @@ [id |-> live.id,
             district |-> OrElse(extractDistrict(live.address), FieldOf(match, "district")),
             last_updated |-> t]
  ELSE mergeWithStrategy(live, match, strategy)

\* No mergeShopData call is in progress.
ServiceIdle ==
  [op |-> "mergeShopData", step |-> "done", calls |-> 0, mergeStrategy |-> "none",
   liveShop |-> {}, corpusShops |-> <<>>, mergedShops |-> {}, threw |-> FALSE]

\* mergeShopData(liveShops, {mergeStrategy}) up to the merge: the reference
\* collection is read with getShops(null); getDistrictProfiles and
\* getPricingReference find no file and no row and return [].
LoadReference(liveShop, strategy) ==
  /\ mg.step = "done" /\ mg.calls < MaxCalls
  /\ LET rows == SqliteGetShops(shopsTab, NoDistrict, FALSE)
         top == {r \in rows : \A x \in rows : Spread(x.rating) <= Spread(r.rating)}
     IN \E first \in (IF rows = {} THEN {NoShop} ELSE top) :
          LET r == getShops(NoDistrict, {}, first)
          IN /\ rkv' = r.rkv
             /\ shopsTab' = r.tab
             /\ \E corpusShops \in Orderings(r.out) :
                  mg' = [ServiceIdle EXCEPT !.step = "loaded", !.calls = mg.calls + 1,
                                            !.mergeStrategy = strategy,
                                            !.liveShop = {liveShop},
                                            !.corpusShops = corpusShops]
  /\ UNCHANGED <<redisOn, refTabs, corpus, now, cres, mdVars>>

\* liveShops.map(...) and this.cache.updateShops(mergedShops); an exception
\* of mergeWithStrategy ends the call before the update.
MergeAndUpdate ==
  /\ mg.step = "loaded"
  /\ LET liveShop == CHOOSE l \in mg.liveShop : TRUE
         corpusMatch == findMatchingShop(liveShop, mg.corpusShops)
     IN IF mergeThrows(corpusMatch, mg.mergeStrategy)
        THEN /\ mg' = [mg EXCEPT !.step = "done", !.threw = TRUE]
             /\ UNCHANGED <<rkv, shopsTab>>
        ELSE LET mergedShops == {mergedShop(liveShop, corpusMatch, mg.mergeStrategy, now)}
                 u == updateShops(mergedShops, {})
             IN /\ mg' = [mg EXCEPT !.step = "done", !.mergedShops = mergedShops]
                /\ rkv' = u.rkv
                /\ shopsTab' = u.tab
  /\ UNCHANGED <<redisOn, refTabs, corpus, now, cres, mdVars>>

DoLoadReference ==
  \E liveShop \in ServiceLiveShops, strategy \in Strategies : LoadReference(liveShop, strategy)

InitService ==
  /\ mv = {}
  /\ vd = [d \in Domains |-> "none"]
  /\ last = NoCall
  /\ sw = [k \in Keys |-> {}]
  /\ ConcIdle
  /\ mv0 = {}
  /\ redisOn \in BOOLEAN
  /\ rkv = [k \in RedisKeys |-> {}]
  /\ shopsTab = {}
  /\ refTabs = [districts |-> {}, pricing |-> {}]
  /\ corpus \in {[shops |-> c, districts |-> {}, pricing |-> {}] : c \in ServiceCorpusFiles}
  /\ now = 0
  /\ cres = NoCacheCall
  /\ mg = ServiceIdle

NextService ==
  \/ DoLoadReference
  \/ MergeAndUpdate

SpecService == InitService /\ [][NextService]_vars

(* ------------------------------ claims -------------------------------- *)

ActiveIds(tab, key) == IdsOf(ActiveOfKey(tab, key[1], key[2]))

RenderOk == {"rendered", "rendered_active", "duplicate"}

\* C1: after any sequence of render, activate, activateById and deactivate
\* calls run one at a time, every (domain, path) has at most one row with
\* is_active = true.
C1_AtMostOneActive ==
  \A k \in Keys : Cardinality(ActiveIds(mv, k)) <= 1

\* An activation has just switched a key that holds two versions.
C1_Witness ==
  /\ last.op \in {"activate", "activateById"}
  /\ last.out = "activated"
  /\ last.was # {}
  /\ \E k \in Keys : Cardinality(RowsOfKey(mv, k[1], k[2])) >= 2
                     /\ Cardinality(ActiveIds(mv, k)) = 1
                     /\ ActiveIds(mv, k) # last.was

\* The activations of a concurrent run.
IsActivation(p) == req[p].op \in {"activate", "activateById"}

\* The existing versions request p targets.
TargetIds(p) ==
  IF req[p].op = "activate"
  THEN IdsOf(RowsOfTriple(mv0, req[p].a[1], req[p].a[2], req[p].a[3]))
  ELSE IF req[p].op = "activateById" THEN {req[p].a[1]} \cap IdsOf(mv0)
  ELSE {}

KeysOfIds(S) == {<<id[1], id[2]>> : id \in S}

\* C2: concurrent activate / activateById calls for one (domain, path) with
\* different existing targets serialize: at most one row of the key is active
\* whenever a call completes, and when all have completed exactly one of the
\* targeted versions is active.
C2_ConcurrentActivateSerialize ==
  (\A p \in Procs : req[p].op = "none" \/ IsActivation(p)) =>
    /\ \A k \in Keys : Cardinality(ActiveIds(mv, k)) <= 1
    /\ \A p, q \in Procs :
         ( /\ p # q /\ pc[p] = "done" /\ pc[q] = "done"
           /\ TargetIds(p) # {} /\ TargetIds(q) # {} /\ TargetIds(p) # TargetIds(q)
           /\ KeysOfIds(TargetIds(p)) = KeysOfIds(TargetIds(q)) )
         => \E k \in KeysOfIds(TargetIds(p)) : ActiveIds(mv, k) \in {TargetIds(p), TargetIds(q)}

\* Two activations of different versions of one key have both committed, the
\* second after finding the rows locked by the first.
C2_Witness ==
  /\ \A p \in Procs : IsActivation(p) /\ pc[p] = "done" /\ obs[p].out = "activated"
  /\ TargetIds(1) # TargetIds(2)
  /\ KeysOfIds(TargetIds(1)) = KeysOfIds(TargetIds(2))
  /\ obs[2].mid

IsRead(p) == req[p].op \in {"serve", "list"}

\* C3: a reader that runs concurrently with activate / activateById never
\* sees two active versions of the key, and never sees none when the key had
\* an active version and is only being switched.
C3_NoPartialActivationObserved ==
  \A p \in Procs :
    ( /\ pc[p] = "done" /\ IsRead(p) /\ obs[p].n >= 0
      /\ \A q \in Procs \ {p} : req[q].op = "none" \/ IsActivation(q) \/ IsRead(q) )
    => /\ obs[p].n <= 1
       /\ Cardinality(ActiveIds(mv0, <<req[p].a[1], req[p].a[2]>>)) = 1 => obs[p].n = 1

\* A read answered while an activation had written both of its steps without
\* having committed.
C3_Witness ==
  \E p, q \in Procs :
    /\ pc[p] = "done" /\ IsRead(p) /\ obs[p].mid /\ obs[p].n = 1
    /\ IsActivation(q) /\ pc[q] = "commit"
    /\ Cardinality(RowsOfKey(mv0, req[p].a[1], req[p].a[2])) >= 2

\* Request q writes no row.
Quiet(q) == req[q].op = "none" \/ IsRead(q)

\* C4: an activation whose transaction fails is rolled back: every row has
\* the is_active it had before the call and the caller gets a failure; an
\* activation changes the table only when it reports success, and then its
\* target is the one active version of the key.
C4_FailedActivationRolledBack ==
  \A p \in Procs :
    (pc[p] = "done" /\ IsActivation(p) /\ \A q \in Procs \ {p} : Quiet(q)) =>
      IF obs[p].out = "activated"
      THEN \A k \in KeysOfIds(TargetIds(p)) : ActiveIds(mv, k) = TargetIds(p)
      ELSE mv = mv0

\* An activation failed after it had written the rows of a key that had
\* another version active.
C4_Witness ==
  \E p \in Procs :
    /\ pc[p] = "done" /\ IsActivation(p) /\ \A q \in Procs \ {p} : Quiet(q)
    /\ obs[p].out = "activation_failed" /\ obs[p].n >= 2
    /\ \E k \in KeysOfIds(TargetIds(p)) : ActiveIds(mv0, k) # {} /\ ActiveIds(mv, k) = ActiveIds(mv0, k)

\* C5: activate of a triple without a row and activateById of an unknown id
\* report not-found and change nothing.
C5_ActivateNotFoundNoMutation ==
  [][(last'.op \in {"activate", "activateById"} /\ last'.had = "new")
       => (last'.out = "not_found" /\ mv' = mv)]_vars

\* A not-found activation on a key that has an active version.
C5_Witness ==
  /\ last.op = "activate"
  /\ last.had = "new"
  /\ last.out = "not_found"
  /\ last.was # {}
  /\ ActiveIds(mv, <<last.a[1], last.a[2]>>) = last.was

\* C6: render called twice with identical arguments leaves exactly one row of
\* the triple.
C6_RenderTwiceOneRow ==
  /\ \A t \in Triples : Cardinality(RowsOfTriple(mv, t[1], t[2], t[3])) <= 1
  /\ (last.op = "render" /\ last.out \in RenderOk)
       => Cardinality(RowsOfTriple(mv, last.a[1], last.a[2], last.a[3])) = 1

\* A render of a triple that an earlier render with the same source URL had
\* stored.
C6_Witness ==
  /\ last.op = "render"
  /\ last.had = "same"
  /\ last.out \in RenderOk
  /\ Cardinality(RowsOfTriple(mv, last.a[1], last.a[2], last.a[3])) = 1

\* C7: render of a (domain, path, contentHash) that already has a row, with
\* any well-formed source URL that derives the path, reports duplicate and
\* takes no further action: no insert, no content change, no is_active
\* change.
C7_RenderExistingIsDuplicate ==
  [][(last'.op = "render" /\ last'.had # "new" /\ last'.out # "error")
       => (last'.out = "duplicate" /\ mv' = mv)]_vars

IsRender(p) == req[p].op = "render" /\ req[p].a[4].valid

\* C8: concurrent renders of one (domain, path, contentHash) are absorbed:
\* no call ends in an error and exactly one row of the triple exists
\* afterwards.
C8_ConcurrentRenderAbsorbed ==
  /\ \A t \in Triples : Cardinality(RowsOfTriple(mv, t[1], t[2], t[3])) <= 1
  /\ \A p, q \in Procs :
       ( /\ p # q /\ pc[p] = "done" /\ pc[q] = "done" /\ IsRender(p) /\ IsRender(q)
         /\ SubSeq(req[p].a, 1, 3) = SubSeq(req[q].a, 1, 3) )
       => /\ obs[p].out \in RenderOk /\ obs[q].out \in RenderOk
          /\ Cardinality(RowsOfTriple(mv, req[p].a[1], req[p].a[2], req[p].a[3])) = 1

\* Two renders of one triple arrived when it had no row; the INSERT of the
\* second met the row of the first.
C8_Witness ==
  /\ \A p \in Procs : pc[p] = "done" /\ IsRender(p) /\ obs[p].n = 0 /\ obs[p].out \in RenderOk
  /\ SubSeq(req[1].a, 1, 3) = SubSeq(req[2].a, 1, 3)
  /\ obs[2].mid

\* C9: the serving read answers forbidden for a domain whose verified_at is
\* null, not-found for an unknown domain or a verified domain without an
\* active version, and content only for a verified domain with an active
\* version.
C9_ServeGate ==
  last.op \in {"serve", "serveSetup"} =>
    LET d == last.a[1]
        active == ActiveIds(mv, <<last.a[1], last.a[2]>>)
    IN /\ vd[d] = "unverified" => last.out = "forbidden"
       /\ vd[d] = "none" => last.out = "domain_not_found"
       /\ (vd[d] = "verified" /\ active = {}) => last.out = "not_found"
       /\ last.out = "ok" => (vd[d] = "verified" /\ active # {})

C11_ActiveOnlyUnderVerifiedDomain ==
  \A r \in mv : r.is_active => vd[r.domain] = "verified"

\* The call made the tier access x.
Made(call, x) == \E i \in 1..Len(call.acc) : call.acc[i] = x

\* The records of an update that a read of the key is to return.
UpdatedFor(shops, key) ==
  IF key = NoDistrict THEN shops ELSE {r \in shops : r.district = key}

\* A getShops call follows an updateShops call of some records with the fast
\* tier configured,
\* no tier access failing in either and no TTL expiry between them.
ReadFollowsUpdate ==
  /\ cres.op = "updateShops" /\ cres.arg # {}
  /\ cres'.op = "getShops"
  /\ redisOn
  /\ cres.fail = {} /\ cres'.fail = {}
  /\ cres'.t - cres.t < ShopsTtl

\* C12: after updateShops(records), with the fast tier configured and before
\* any TTL expiry, getShops returns the updated records from the fast tier,
\* without reading the corpus, for every key: no district or any district.
C12_ReadAfterUpdateFromFastTier ==
  [][ReadFollowsUpdate =>
       /\ cres'.src = "fast"
       /\ cres'.out = UpdatedFor(cres.arg, cres'.key)
       /\ ~Made(cres', "corpus.read")]_vars

IsCacheRead == cres.op \in {"getShops", "getDistrictProfiles", "getPricingReference"}

ReadTags == {"fast.get", "durable.get", "corpus.read"}

\* C13: the reads never throw: a tier that fails is a miss and the read falls
\* through to the next tier, and a read that no tier answers returns the
\* empty collection.
C13_ReadsNeverThrow ==
  IsCacheRead =>
    /\ ~cres.threw
    /\ ("fast.get" \in cres.fail => Made(cres, "durable.get"))
    /\ ("durable.get" \in cres.fail => Made(cres, "corpus.read"))
    /\ ("corpus.read" \in cres.fail => cres.src = "none")
    /\ (cres.src = "none" => cres.out = {})

\* Every tier of a read failed and the read returned the empty collection.
C13_Witness ==
  /\ IsCacheRead /\ redisOn
  /\ ReadTags \subseteq cres.fail
  /\ cres.out = {} /\ ~cres.threw

\* What a call found in the fast tier counts as a miss.
FastMissed(call) == call.fast \in {"off", "failed", "miss"}

\* The tier accesses of a call were made in the order of acc.
Before(call, x, y) ==
  \A i, j \in 1..Len(call.acc) : call.acc[i] = x /\ call.acc[j] = y => i < j

\* C14: getShops consults the tiers strictly in the order fast, durable,
\* source: a fast-tier hit returns at once without reading or writing the
\* durable tier or the corpus, and the corpus is read only when the fast tier
\* missed or failed and the durable tier was empty, stale or failed.
C14_TierOrder ==
  [][(cres'.op = "getShops" /\ cres'.odd # cres.odd) =>
       /\ (cres'.fast = "hit" =>
             /\ cres'.src = "fast" /\ cres'.acc = <<"fast.get">>
             /\ shopsTab' = shopsTab /\ rkv' = rkv)
       /\ (cres'.src = "fast" => cres'.fast = "hit")
       /\ Before(cres', "fast.get", "durable.get")
       /\ Before(cres', "durable.get", "corpus.read")
       /\ (redisOn => Made(cres', "fast.get"))
       /\ (Made(cres', "durable.get") => FastMissed(cres'))
       /\ (Made(cres', "corpus.read") =>
             /\ FastMissed(cres')
             /\ Made(cres', "durable.get")
             /\ cres'.dur \in {"empty", "stale", "failed"})
       /\ (cres'.dur = "fresh" => cres'.src = "durable")]_vars

\* A fast-tier hit while the durable tier holds rows and the corpus has a
\* file: neither is touched.
C14_Witness ==
  /\ cres.op = "getShops" /\ cres.fast = "hit" /\ cres.src = "fast"
  /\ shopsTab # {} /\ corpus.shops # {}
  /\ cres.acc = <<"fast.get">>

\* A read answered from the corpus is followed by a read of the same key, no
\* tier access failing in either.
ReadAgainAfterCorpus ==
  /\ IsCacheRead /\ cres.src = "corpus" /\ cres.fail = {}
  /\ cres'.odd # cres.odd
  /\ cres'.op = cres.op /\ cres'.key = cres.key
  /\ cres'.fail = {} /\ cres'.t = cres.t

\* C15: for each of the three collections, a read answered from the source
\* tier warms the durable and the fast tier, so that the next read of the same
\* key is answered from a cache tier without reading the corpus.
C15_CorpusAnswerWarmsTiers ==
  [][ReadAgainAfterCorpus =>
       /\ cres'.src \in {"fast", "durable"}
       /\ ~Made(cres', "corpus.read")]_vars

\* C16: on a fast-tier miss the durable tier's records are returned only when
\* fresh within the one-hour window, so no durable record older than the
\* window is returned.
C16_NoStaleDurableRecordReturned ==
  (cres.op = "getShops" /\ cres.src = "durable") =>
    \A r \in cres.out : isRecent(r.last_updated, FreshWindow, cres.t)

\* An updateShops call has just completed.
JustUpdated == cres.op = "updateShops" /\ cres.t = now

\* The fast tier holds the list of the update under the key of no district.
FastHoldsUpdate ==
  rkv[ShopsKey(NoDistrict)] = {[val |-> cres.arg, exp |-> cres.t + ShopsTtl]}

\* The durable tier holds every record of the update, stamped at the update.
DurableHoldsUpdate ==
  \A r \in cres.arg : ShopRec(r.id, cres.t) \in shopsTab

\* C17: updateShops always attempts the durable write and, when the fast tier
\* is configured, the fast write and the last-updated marker; the tiers are
\* independent: a failed write of one does not prevent the write of the other;
\* the method never throws.
C17_UpdateWritesIndependent ==
  JustUpdated =>
    /\ ~cres.threw
    /\ cres.acc = <<"durable.save">> \o IfRedis(<<"fast.set", "fast.mark">>)
    /\ ("durable.save" \notin cres.fail => DurableHoldsUpdate)
    /\ (redisOn /\ "fast.set" \notin cres.fail => FastHoldsUpdate)
    /\ (redisOn /\ "fast.mark" \notin cres.fail => rkv[LastUpdatedKey] # {})

\* The durable write failed, and the fast tier holds the update all the same.
C17_Witness ==
  /\ JustUpdated /\ redisOn /\ cres.arg # {}
  /\ cres.fail = {"durable.save"}
  /\ FastHoldsUpdate /\ ~DurableHoldsUpdate
  /\ ~cres.threw

\* The live shops merged so far.
Merged == IF mg.op = "merge" THEN 1..Len(mg.mergedShops) ELSE {}

\* The positions of the reference records that a rule accepts for a live shop.
ExactAt(live, c) == {k \in DOMAIN c : ExactName(live, c[k])}

FuzzyAt(live, c) == {k \in DOMAIN c : FuzzyName(live, c[k])}

AddressAt(live, c) ==
  {k \in DOMAIN c : live.address # <<>> /\ AddressRule(live, c[k])}

\* The positions accepted by the first rule that accepts any.
WinningAt(live, c) ==
  IF ExactAt(live, c) # {} THEN ExactAt(live, c)
  ELSE IF FuzzyAt(live, c) # {} THEN FuzzyAt(live, c)
  ELSE AddressAt(live, c)

\* C18: findMatchingShop tries exact name (ignoring case), then fuzzy name,
\* then address, each over the whole reference collection, and returns the
\* first record of the first rule that accepts one, null when none does; an
\* exact match is chosen even after an earlier fuzzy or address match, and the
\* merged record of a matched pair carries both source tags.
C18_MatchRuleOrder ==
  \A i \in Merged :
    LET live == mg.liveShops[i]
        c == mg.corpusShops
        W == WinningAt(live, c)
    IN /\ (W = {} => mg.matches[i] = {})
       /\ (W # {} => mg.matches[i] = {c[CHOOSE k \in W : \A j \in W : k <= j]})
       /\ mg.mergedShops[i].data_sources =
            IF mg.matches[i] = {} THEN <<"google_maps">> ELSE <<"google_maps", "corpus">>

\* The first reference record matches by the fuzzy or the address rule only,
\* the second by exact name, and the second is chosen.
C18_Witness ==
  /\ 1 \in Merged /\ Len(mg.corpusShops) = 2
  /\ ExactAt(mg.liveShops[1], mg.corpusShops) = {2}
  /\ 1 \in FuzzyAt(mg.liveShops[1], mg.corpusShops) \cup AddressAt(mg.liveShops[1], mg.corpusShops)
  /\ mg.corpusShops[1] # mg.corpusShops[2]
  /\ mg.matches[1] = {mg.corpusShops[2]}
  /\ mg.mergedShops[1].data_sources = <<"google_maps", "corpus">>

\* C19: each list field of the merged record is the live record's list when
\* that list is non-empty, otherwise the matched reference's list, and empty
\* when there is no match or the reference has none.
C19_ListFieldsLiveIfNonEmpty ==
  \A i \in Merged : \A field \in ListFields :
    mg.mergedShops[i][field] =
      IF NonEmptyList(mg.liveShops[i][field]) THEN mg.liveShops[i][field]
      ELSE OrElse(FieldOf(mg.matches[i], field), {<<>>})

\* C20: verified and safety_signals of the merged record come only from the
\* matched reference: live records that differ only in their own verified and
\* safety_signals give the same merged values, and with no match verified is
\* false and safety_signals is empty.
C20_FlagsOnlyFromReference ==
  /\ \A i, j \in Merged :
       (mg.liveShops[j] = SelfDeclared(mg.liveShops[i])) =>
         /\ mg.mergedShops[i].verified = mg.mergedShops[j].verified
         /\ mg.mergedShops[i].safety_signals = mg.mergedShops[j].safety_signals
  /\ \A i \in Merged :
       /\ (mg.matches[i] = {} =>
             /\ mg.mergedShops[i].verified = {FALSE}
             /\ mg.mergedShops[i].safety_signals = {<<>>})
       /\ (mg.mergedShops[i].verified = {TRUE} =>
             FieldOf(mg.matches[i], "verified") = {TRUE})
       /\ (NonEmptyList(mg.mergedShops[i].safety_signals) =>
             mg.mergedShops[i].safety_signals = FieldOf(mg.matches[i], "safety_signals"))

\* A live record that declares itself verified is merged after its twin that
\* does not, with a reference that is not verified.
C20_Witness ==
  /\ Merged = {1, 2}
  /\ mg.liveShops[2].verified = {TRUE} /\ mg.liveShops[1].verified = {}
  /\ mg.matches[2] # {} /\ FieldOf(mg.matches[2], "verified") = {FALSE}
  /\ mg.mergedShops[2].verified = {FALSE}
  /\ mg.mergedShops[2].safety_signals = {<<>>}

\* The reference matched to the i-th live shop.
MatchOf(i) == CHOOSE c \in mg.matches[i] : TRUE

\* C21: in corpus_priority with a matched reference, the reference wins for
\* the scalar fields, every list field (pricing, line_usernames, websites) is
\* the reference's list followed by the live list, and the source tags are
\* corpus, then live.
C21_CorpusPriorityConcatenatesLists ==
  (mg.op = "merge" /\ mg.mergeStrategy = "corpus_priority") =>
    \A i \in Merged :
      /\ mg.mergedShops[i].name = MatchOf(i).name
      /\ mg.mergedShops[i].address = MatchOf(i).address
      /\ mg.mergedShops[i].verified = MatchOf(i).verified
      /\ (MatchOf(i).rating # {} => mg.mergedShops[i].rating = MatchOf(i).rating)
      /\ \A field \in ListFields :
           Spread(mg.mergedShops[i][field]) =
             Spread(MatchOf(i)[field]) \o Spread(mg.liveShops[i][field])
      /\ mg.mergedShops[i].data_sources = <<"corpus", "google_maps">>

\* C22: when no reference matches a live shop, mergeShopData goes on with the
\* live record alone under every strategy: it does not raise and the merged
\* collection has a record for that shop.
C22_NoMatchNeverRaises ==
  mg.op = "merge" =>
    \A i \in 1..Len(mg.matches) :
      mg.matches[i] = {} => ~mg.threw /\ i \in Merged

\* C23: under a strategy tag other than enrich_with_corpus and
\* corpus_priority the merged record is the live record unchanged, with or
\* without a matched reference, and no error is raised.
C23_UnknownStrategyIsIdentity ==
  (mg.op = "merge" /\ mg.mergeStrategy \notin {"enrich_with_corpus", "corpus_priority"}) =>
    /\ ~mg.threw
    /\ Len(mg.mergedShops) = Len(mg.matches)
    /\ \A i \in Merged : mg.mergedShops[i] = mg.liveShops[i]

\* An unknown strategy with a matched reference: the live record comes back.
C23_Witness ==
  /\ mg.op = "merge" /\ mg.mergeStrategy = "live_only"
  /\ Merged = {1} /\ mg.matches[1] # {}
  /\ mg.mergedShops[1] = mg.liveShops[1]
  /\ NonEmptyList(MatchOf(1).pricing) /\ ~NonEmptyList(mg.liveShops[1].pricing)

\* The confidence of the claim in tenths, before the clamp.
NominalTenths(live, match) ==
  5 + (IF match # {} THEN 3 ELSE 0)
    + (IF match # {} /\ FieldOf(match, "verified") = {TRUE} THEN 2 ELSE 0)
    + (IF live.rating \in {{r} : r \in 41..50} THEN 1 ELSE 0)
    + (IF live.review_count \in {{n} : n \in 11..200} THEN 1 ELSE 0)

\* C24: the confidence of an enriched record is min(0.5 + 0.3 [match] + 0.2
\* [match and reference verified] + 0.1 [live rating > 4.0] + 0.1 [live review
\* count > 10], 1.0), so it lies in [0.5, 1.0]; rating 4.8 and 120 reviews
\* matched to a verified reference give exactly 1.0.
C24_ConfidenceFormula ==
  (mg.op = "merge" /\ mg.mergeStrategy = "enrich_with_corpus") =>
    \A i \in Merged :
      LET nominal == NominalTenths(mg.liveShops[i], mg.matches[i])
          confidence == mg.mergedShops[i].confidence
      IN /\ confidence = Double(IF nominal < 10 THEN nominal ELSE 10)
         /\ confidence.tenths \in 5..10 /\ confidence.ulps = 0
         /\ (/\ mg.liveShops[i].rating = {48} /\ mg.liveShops[i].review_count = {120}
             /\ FieldOf(mg.matches[i], "verified") = {TRUE}
             => confidence = Double(10))

\* Rating 4.8 and 120 reviews matched to a verified reference: 1.0.
C24_Witness ==
  /\ mg.op = "merge" /\ mg.mergeStrategy = "enrich_with_corpus" /\ Merged = {1}
  /\ mg.liveShops[1].rating = {48} /\ mg.liveShops[1].review_count = {120}
  /\ FieldOf(mg.matches[1], "verified") = {TRUE}
  /\ mg.mergedShops[1].confidence = Double(10)

\* The positions in the district list of the names that occur in an address,
\* ignoring case.
NamedIn(address) ==
  {k \in DOMAIN districts : includes(toLowerCase(address), toLowerCase(districts[k]))}

\* The places of an address where a string starts.
StartsIn(address, part) ==
  {i \in 1..Len(address) : i + Len(part) - 1 <= Len(address)
                            /\ SubSeq(address, i, i + Len(part) - 1) = part}

\* C25: extractDistrict returns the first name of the district list, in list
\* order, that occurs in the address ignoring case, and null when the address
\* is absent or holds none; of several names in an address the one that
\* comes first in the list is returned, not the first in the address.
C25_FirstDistrictInListOrder ==
  (mg.op = "district" /\ mg.done) =>
    /\ (mg.address = <<>> \/ NamedIn(mg.address) = {} => mg.out = {})
    /\ (NamedIn(mg.address) # {} =>
          mg.out = {districts[CHOOSE k \in NamedIn(mg.address) :
                                \A j \in NamedIn(mg.address) : k <= j]})

\* An address that names Nana before Asok: Asok is returned.
C25_Witness ==
  /\ mg.op = "district" /\ mg.done
  /\ mg.out = {districts[1]}
  /\ \E i \in StartsIn(mg.address, districts[2]) :
       \A j \in StartsIn(mg.address, districts[1]) : i < j
  /\ StartsIn(mg.address, districts[1]) # {}

\* C26: every operation that writes is_active, the admin toggle and the
\* endorsement-gated toggle included, leaves at most one active version per
\* (domain, path), also for a key that holds two or more versions.
C26_EveryWriterKeepsOneActive ==
  \A k \in Keys :
    Cardinality(RowsOfKey(mv, k[1], k[2])) >= 2 =>
      Cardinality(ActiveIds(mv, k)) <= 1

\* A render of a triple that had no row has returned.
RenderedNew == last.op = "render" /\ last.had = "new" /\ last.out # "error"

IsAutoActivation(p) == IsRender(p) /\ loc[p].verified

\* C28: when verified-domain renders of different content hashes of one
\* (domain, path), or such a render and an activation, interleave, at most one
\* version of the key is active after each call completes.
C28_ConcurrentAutoActivationKeepsOne ==
  ( /\ \E p \in Procs : IsAutoActivation(p)
    /\ \A p \in Procs : req[p].op = "none" \/ IsRender(p) \/ IsActivation(p) )
  => \A k \in Keys : Cardinality(ActiveIds(mv, k)) <= 1

\* The shop records the cache tiers hold.
CachedShops ==
  shopsTab \cup UNION {e.val : e \in UNION {rkv[ShopsKey(d)] : d \in DistrictArgs}}

\* The records of shops_verified.ndjson.
CorpusShopsOnFile == UNION corpus.shops

\* C29: after any sequence of mergeShopData calls with any strategies, a
\* record held in a cache tier is marked verified only if the corpus marks
\* that shop verified.
C29_CachedVerifiedOnlyFromCorpus ==
  \A r \in CachedShops :
    r.verified = {TRUE} =>
      \E c \in CorpusShopsOnFile : c.name = r.name /\ c.verified = {TRUE}

\* C30: every record that getShops(d) returns belongs to district d,
\* whichever tier answers, and the fast-tier entry of district d holds no
\* record of another district.
C30_DistrictReadsStayInDistrict ==
  /\ (cres.op = "getShops" /\ cres.key # NoDistrict) =>
       \A r \in cres.out : r.district = cres.key
  /\ \A d \in DistrictArgs \ {NoDistrict} :
       \A e \in rkv[ShopsKey(d)] : \A r \in e.val : r.district = d

\* The row of mv' with the id of row r has the content, content_hash, domain
\* and path of r.
KeepsStoredColumns(r) ==
  \E x \in mv' :
    /\ x.id = r.id
    /\ x.content = r.content /\ x.content_hash = r.content_hash
    /\ x.domain = r.domain /\ x.path = r.path

\* C31: a stored version is immutable except for is_active and updated_at:
\* no call changes the content, content_hash, domain or path of an existing
\* row.
C31_StoredVersionImmutable ==
  [][\A r \in mv : KeepsStoredColumns(r)]_vars

\* C33: deactivate sets is_active = false for exactly the target row and
\* leaves every other row as it was; on an inactive row it succeeds and
\* changes nothing; after it deactivated the active version the key has no
\* active version and the serving read answers not-found.
C33_DeactivateExactlyTarget ==
  [][last'.op = "deactivate" =>
       LET target == IdsOf(RowsOfTriple(mv, last'.a[1], last'.a[2], last'.a[3]))
       IN /\ last'.out = "already_inactive" => mv' = mv /\ last'.wrote = {}
          /\ last'.out = "deactivated" =>
               /\ last'.wrote = target
               /\ \A r \in mv : IF r.id \in target
                                THEN [r EXCEPT !.is_active = FALSE] \in mv'
                                ELSE r \in mv'
               /\ Cardinality(mv') = Cardinality(mv)
               /\ ActiveIds(mv', <<last'.a[1], last'.a[2]>>) = {}
               /\ \A row \in FirstRows(mv', last'.a[1], last'.a[2]) :
                    LET served == serveMarkdown(mv', vd', last'.a[1], last'.a[2], row).out
                    IN served # "ok" /\ (vd'[last'.a[1]] = "verified" => served = "not_found")]_vars

\* The active version of a verified domain's key that holds two versions has
\* just been deactivated.
C33_Witness ==
  /\ last.op = "deactivate" /\ last.out = "deactivated"
  /\ vd[last.a[1]] = "verified"
  /\ Cardinality(RowsOfKey(mv, last.a[1], last.a[2])) >= 2
  /\ ActiveIds(mv, <<last.a[1], last.a[2]>>) = {}

\* C34: activate and activateById of a version that is already active
\* succeed without writing any row: the table is the one before the call.
C34_ActivateActiveIsNoOp ==
  [][(last'.op \in {"activate", "activateById"} /\ last'.out = "already_active") =>
       mv' = mv /\ last'.wrote = {}]_vars

\* activateById met its target active in a key of two versions.
C34_Witness ==
  /\ last.op = "activateById" /\ last.out = "already_active"
  /\ \E k \in Keys : /\ Cardinality(RowsOfKey(mv, k[1], k[2])) >= 2
                     /\ ActiveIds(mv, k) = {last.a[1]}

\* C35: activateById(id) does what activate(domain, path, contentHash) of the
\* row with that id does, and the other way round: the same outcome and the
\* same is_active of every row.
C35_ActivateByIdEquivalent ==
  [][/\ last'.op = "activateById" =>
          LET id == last'.a[1]
              byTriple == activateMarkdown(mv, id[1], id[2], id[3])
          IN last'.out = byTriple.out /\ mv' = byTriple.mv
     /\ last'.op = "activate" =>
          LET rows == RowsOfTriple(mv, last'.a[1], last'.a[2], last'.a[3])
              id == IF rows = {} THEN RowId(last'.a[1], last'.a[2], last'.a[3], 1)
                    ELSE (CHOOSE r \in rows : TRUE).id
              byId == activateMarkdownById(mv, id)
          IN last'.out = byId.out /\ mv' = byId.mv]_vars

\* activateById switched a key from one version to another.
C35_Witness ==
  /\ last.op = "activateById" /\ last.out = "activated"
  /\ last.was # {} /\ last.was # {last.a[1]}
  /\ ActiveIds(mv, <<last.a[1][1], last.a[1][2]>>) = {last.a[1]}

\* C32: an ingestion of a hash that is stored for the key adds no row and
\* reports the no-op, whether the hash is the latest one or an older one; a
\* version is created only for a hash that is not stored.
C32_IngestionIdempotent ==
  [][last'.op = "ingest" =>
       IF last'.had = "same" THEN mv' = mv /\ last'.out = "noop"
       ELSE last'.out = "new_version_created" => Cardinality(mv') = Cardinality(mv) + 1]_vars

\* What getShops(null) may return now, whichever row of the durable tier
\* comes first.
ReferenceNow ==
  LET rows == SqliteGetShops(shopsTab, NoDistrict, FALSE)
  IN {getShops(NoDistrict, {}, first).out : first \in (IF rows = {} THEN {NoShop} ELSE rows)}

\* C37: after a mergeShopData call, getShops with no district still returns
\* every shop it returned before the merge (as a record of the same id or of
\* the same name).
C37_UpdateKeepsReferenceCollection ==
  (mg.op = "mergeShopData" /\ mg.step = "done" /\ mg.calls > 0 /\ ~mg.threw) =>
    \A out \in ReferenceNow :
      \A i \in DOMAIN mg.corpusShops : \E r \in out :
        r.id = mg.corpusShops[i].id \/ r.name = mg.corpusShops[i].name

\* The name has characters but none of them is an ASCII letter or digit.
NormalizesToEmpty(name) == name # <<>> /\ stripNonAlnum(toLowerCase(name)) = <<>>

\* C40: a live shop whose name normalizes to the empty string is not found
\* similar to a reference name and is not matched to a reference record that
\* shares neither its name nor its address.
C40_EmptyNormalizedNameMatchesNothing ==
  ( /\ mg.op = "match" /\ mg.done
    /\ NormalizesToEmpty(mg.liveShop.name)
    /\ ~ExactName(mg.liveShop, mg.corpusShops[1]) )
  => /\ ~mg.similar
     /\ ~isSimilarAddress(mg.corpusShops[1].address, mg.liveShop.address) => mg.match = {}

\* C38: every active version has content.
C38_PendingVersionNeverActive ==
  \A r \in mv : r.is_active => r.content # NullContent

\* The render of p stands before an INSERT of one row more than the tables
\* of the model hold.
TableFull(p) ==
  /\ pc[p] = "upsert"
  /\ RowsOfTriple(mv, req[p].a[1], req[p].a[2], req[p].a[3]) = {}
  /\ Cardinality(mv) >= MaxRows

\* The call of p is an activate, activateById, deactivate or render call
\* that has not answered yet.
InFlight(p) ==
  /\ req[p].op \in {"activate", "activateById", "deactivate", "render"}
  /\ pc[p] \notin {"idle", "done"}

\* C39: every activate, activateById, deactivate and render call in flight
\* eventually answers with an outcome, whatever the other call does.
C39_EveryCallCompletes ==
  \A p \in Procs :
    InFlight(p) ~> ((pc[p] = "done" /\ obs[p].out # "none") \/ TableFull(p))

\* Two calls on the same key have answered, and an UPDATE of one of them
\* found a row locked by the transaction of the other.
C39_Witness ==
  /\ \A p \in Procs : pc[p] = "done" /\ req[p].op \in {"activate", "activateById", "render"}
  /\ loc[1].key = loc[2].key
  /\ \E p \in Procs : req[p].op # "render" /\ obs[p].mid /\ obs[p].out = "activated"

\* The Redis keys of the shop collections.
ShopsKeys == {ShopsKey(district) : district \in DistrictArgs}

====
